---- MODULE Spec2Model ----
(***************************************************************************)
(* A model of the scorecheck frontend's view logic (Home.vue, Team.vue):   *)
(* the status classifier, the display sorter, the schedule aggregator and  *)
(* the record reconstructor.                                               *)
(*                                                                         *)
(* JavaScript strings are modelled as sequences of one-character strings,  *)
(* so that lower-casing, substring search, regular-expression replacement, *)
(* splitting and number formatting are computed character by character.    *)
(***************************************************************************)
EXTENDS Integers, Sequences, FiniteSets

VARIABLES
    pc,                 \* position of the component under evaluation
    status,             \* the raw status value of the game being classified
    stateLabel,         \* gameStateLabel(game)
    displayRank,        \* gameDisplayRank(game)
    games,              \* the games value handed to sortGamesForDisplay
    sortedGames,        \* sortGamesForDisplay(games)
    teamScores,         \* displayTeamScore(game, side) of every sorted game
    todayGamesPayload,  \* Home.vue: todayGamesPayload.value
    todayLeagues,       \* Home.vue: todayLeagues.value
    yesterdayLeagues,   \* Home.vue: yesterdayLeagues.value
    sortedTodayLeagues,     \* Home.vue: sortedTodayLeagues.value
    sortedYesterdayLeagues, \* Home.vue: sortedYesterdayLeagues.value
    todayEmptyNotice,   \* Home.vue template: hasNoTodayGames && hasAnyYesterdayGames
    team,               \* Team.vue: team.value
    playedGames,        \* Team.vue: playedGames.value
    playedGamesWithRecord,  \* Team.vue: playedGamesWithRecord.value
    teamRecord,         \* Team.vue: teamRecord.value
    teamsResponses,     \* the responses of /leagues/{id}/teams, by league
    teamsByLeague,      \* Home.vue: teamsByLeague.value
    linkLeagueId,       \* the league.id of the team link being rendered
    linkTeamName,       \* the game's home_team or away_team of that link
    linkRoute,          \* teamRoute(league.id, teamName)
    linkLabel,          \* displayTeamName(teamName)
    displayPlayers,     \* Team.vue: displayPlayers.value
    playerStats,        \* Team.vue: playerStats.value
    menuTeamsByLeague,  \* App.vue: teamsByLeague.value
    loadingTeamsByLeague,   \* App.vue: loadingTeamsByLeague.value
    openLeague,         \* App.vue: openLeague.value
    menuRequests,       \* App.vue: the calls of openLeagueMenu awaiting a reply
    menuFetches,        \* the number of roster requests started, by league
    loadingTodayGames,  \* Home.vue: loadingTodayGames.value
    todayGamesError,    \* Home.vue: todayGamesError.value
    todayGamesIntervalId,   \* Home.vue: todayGamesIntervalId
    homeLifecycle,      \* Home.vue: the view is set up, mounted or unmounted
    mountedHook,        \* Home.vue: the position of the onMounted callback
    windowIntervals,    \* the intervals of window that are set
    scheduleRequests,   \* Home.vue: the calls of loadTodayGames awaiting a reply
    rosterLoad,         \* Home.vue: the position of loadLeagueTeams
    scheduleFetches,    \* the number of schedule requests started
    lastScheduleResult, \* the outcome of the schedule request that ended last
    routeParams,        \* Team.vue: route.params.id
    loading,            \* Team.vue: loading.value
    error,              \* Team.vue: error.value
    selectedGameId,     \* Team.vue: selectedGameId.value
    gameStatsPlayers,   \* Team.vue: gameStatsPlayers.value
    gameStatsLoading,   \* Team.vue: gameStatsLoading.value
    gameStatsMessage,   \* Team.vue: gameStatsMessage.value
    teamRequests,       \* Team.vue: the calls of loadTeam awaiting the team
    statsRequests,      \* Team.vue: the calls of loadGamePlayerStats awaiting
    viewEvents,         \* the route changes and game selections so far
    latestLoad,         \* the number of the call of loadTeam made last
    lastStatsOutcome,   \* how the call of loadGamePlayerStats that ended last ended
    statsSettled        \* the number of calls of loadGamePlayerStats that ended

statusVars == <<status, stateLabel, displayRank>>
sortVars == <<games, sortedGames, teamScores>>
scheduleVars == <<todayGamesPayload, todayLeagues, yesterdayLeagues,
                  sortedTodayLeagues, sortedYesterdayLeagues, todayEmptyNotice>>
teamVars == <<team, playedGames, playedGamesWithRecord, teamRecord>>
routeVars == <<teamsResponses, teamsByLeague, linkLeagueId, linkTeamName,
               linkRoute, linkLabel>>
statsVars == <<displayPlayers, playerStats>>
menuVars == <<menuTeamsByLeague, loadingTeamsByLeague, openLeague,
              menuRequests, menuFetches>>
homeVars == <<loadingTodayGames, todayGamesError, todayGamesIntervalId,
              homeLifecycle, mountedHook, windowIntervals, scheduleRequests,
              rosterLoad, scheduleFetches, lastScheduleResult>>
viewVars == <<routeParams, loading, error, selectedGameId, gameStatsPlayers,
              gameStatsLoading, gameStatsMessage, teamRequests, statsRequests,
              viewEvents, latestLoad, lastStatsOutcome, statsSettled>>

vars == <<pc, statusVars, sortVars, scheduleVars, teamVars, routeVars,
          statsVars, menuVars, homeVars, viewVars>>

----------------------------------------------------------------------------
(* Bounds of the model.                                                    *)

\* a status text is a concatenation of at most this many fragments
MaxStatusParts == 3
\* a games array holds at most this many games
MaxGames == 3
\* a leagues array holds at most this many league groups
MaxLeagues == 2
\* a team's game history holds at most this many entries
MaxHistory == 3
\* a league's roster listing holds at most this many teams
MaxRoster == 2
\* a player collection holds at most this many player rows
MaxPlayers == 2
\* the roster requests counted per league of the menu
MaxFetches == 2
\* the schedule requests of one Home view: the initial one and the polls
MaxScheduleFetches == 3
\* the route changes and game selections of one Team view
MaxViewEvents == 3

----------------------------------------------------------------------------
(* Characters and strings.                                                 *)

UpperLetters == <<"A","B","C","D","E","F","G","H","I","J","K","L","M",
                  "N","O","P","Q","R","S","T","U","V","W","X","Y","Z">>
LowerLetters == <<"a","b","c","d","e","f","g","h","i","j","k","l","m",
                  "n","o","p","q","r","s","t","u","v","w","x","y","z">>
DigitChars == <<"0","1","2","3","4","5","6","7","8","9">>

Range(f) == {f[i] : i \in DOMAIN f}

IsUpper(c) == c \in Range(UpperLetters)
IsLower(c) == c \in Range(LowerLetters)
IsDigit(c) == c \in Range(DigitChars)
\* \w of a JavaScript regular expression
IsWordChar(c) == IsUpper(c) \/ IsLower(c) \/ IsDigit(c) \/ c = "_"
\* \s of a JavaScript regular expression, and the characters trim() strips
IsSpace(c) == c \in {" ", "\t", "\n"}

\* String.prototype.toLowerCase, one character
LowerChar(c) ==
    IF IsUpper(c)
    THEN LowerLetters[CHOOSE i \in DOMAIN UpperLetters : UpperLetters[i] = c]
    ELSE c

\* String.prototype.toLowerCase
ToLowerCase(s) == [i \in DOMAIN s |-> LowerChar(s[i])]

\* String.prototype.includes
Includes(s, sub) ==
    \E i \in 0..(Len(s) - Len(sub)) : SubSeq(s, i + 1, i + Len(sub)) = sub

\* the value of a decimal digit character
DigitValue(c) == (CHOOSE i \in DOMAIN DigitChars : DigitChars[i] = c) - 1

\* String(n) of a non-negative integer
RECURSIVE NatToString(_)
NatToString(n) ==
    IF n < 10 THEN <<DigitChars[n + 1]>>
    ELSE NatToString(n \div 10) \o <<DigitChars[(n % 10) + 1]>>

\* String(n) of an integer
IntToString(n) == IF n < 0 THEN <<"-">> \o NatToString(-n) ELSE NatToString(n)

\* String.prototype.trim
RECURSIVE TrimStart(_)
TrimStart(s) ==
    IF s # <<>> /\ IsSpace(Head(s)) THEN TrimStart(Tail(s)) ELSE s

RECURSIVE TrimEnd(_)
TrimEnd(s) ==
    IF s # <<>> /\ IsSpace(s[Len(s)]) THEN TrimEnd(SubSeq(s, 1, Len(s) - 1)) ELSE s

Trim(s) == TrimEnd(TrimStart(s))

\* the concatenation of a sequence of strings
RECURSIVE Concat(_)
Concat(parts) ==
    IF parts = <<>> THEN <<>> ELSE Head(parts) \o Concat(Tail(parts))

----------------------------------------------------------------------------
(* JavaScript values that may stand where a string is expected.            *)

Undefined == [t |-> "undefined", chars |-> <<>>, n |-> 0]
Null      == [t |-> "null", chars |-> <<>>, n |-> 0]
Str(s)    == [t |-> "string", chars |-> s, n |-> 0]
Num(k)    == [t |-> "number", chars |-> <<>>, n |-> k]

\* the truthiness of a value
Truthy(v) ==
    CASE v.t = "string" -> v.chars # <<>>
      [] v.t = "number" -> v.n # 0
      [] OTHER -> FALSE

\* String(v)
JsString(v) ==
    CASE v.t = "string" -> v.chars
      [] v.t = "number" -> IntToString(v.n)
      [] v.t = "null" -> <<"n","u","l","l">>
      [] OTHER -> <<"u","n","d","e","f","i","n","e","d">>

\* String(v || '')
StringOrEmpty(v) == IF Truthy(v) THEN JsString(v) ELSE <<>>

\* String(v ?? '')
StringNullish(v) == IF v.t \in {"undefined", "null"} THEN <<>> ELSE JsString(v)

----------------------------------------------------------------------------
(* Home.vue: the status classifier.                                        *)

Final     == <<"f","i","n","a","l">>
Complete  == <<"c","o","m","p","l","e","t","e">>
Completed == <<"c","o","m","p","l","e","t","e","d">>
InProgress == <<"i","n"," ","p","r","o","g","r","e","s","s">>
Live      == <<"l","i","v","e">>
Qtr       == <<"q","t","r">>
Quarter   == <<"q","u","a","r","t","e","r">>
Period    == <<"p","e","r","i","o","d">>
Inning    == <<"i","n","n","i","n","g">>

LabelComplete  == <<"C","o","m","p","l","e","t","e">>
LabelScheduled == <<"S","c","h","e","d","u","l","e","d">>
LabelLive      == <<"L","i","v","e">>

isCompletedStatus(st) ==
    LET value == ToLowerCase(StringOrEmpty(st))
    IN  Includes(value, Final) \/ Includes(value, Complete) \/ Includes(value, Completed)

\* isLiveStatus with the "inning" keyword left out: the variant C3 is
\* checked against
isLiveStatusNoInning(st) ==
    LET value == ToLowerCase(StringOrEmpty(st))
    IN  \/ Includes(value, InProgress)
        \/ Includes(value, Live)
        \/ Includes(value, Qtr)
        \/ Includes(value, Quarter)
        \/ Includes(value, Period)

isLiveStatus(st) ==
    LET value == ToLowerCase(StringOrEmpty(st))
    IN  \/ Includes(value, InProgress)
        \/ Includes(value, Live)
        \/ Includes(value, Qtr)
        \/ Includes(value, Quarter)
        \/ Includes(value, Period)
        \/ Includes(value, Inning)

\* \b at the gap before position i (1..Len(s)+1)
WordBoundary(s, i) ==
    LET before == i > 1 /\ IsWordChar(s[i - 1])
        after  == i <= Len(s) /\ IsWordChar(s[i])
    IN  before # after

\* the length of the run of digits that starts at position i
RECURSIVE DigitRun(_, _)
DigitRun(s, i) ==
    IF i <= Len(s) /\ IsDigit(s[i]) THEN 1 + DigitRun(s, i + 1) ELSE 0

\* the length of the run of whitespace that starts at position i
RECURSIVE SpaceRun(_, _)
SpaceRun(s, i) ==
    IF i <= Len(s) /\ IsSpace(s[i]) THEN 1 + SpaceRun(s, i + 1) ELSE 0

OrdinalSuffixes == {<<"s","t">>, <<"n","d">>, <<"r","d">>, <<"t","h">>}

\* /\b(\d+)(?:st|nd|rd|th)\s+quarter\b/i anchored at position i: the position
\* after the match, or 0 when there is no match at i
OrdinalQuarterMatch(s, i) ==
    LET d == DigitRun(s, i)
        j == i + d
        w == SpaceRun(s, j + 2)
        m == j + 2 + w
        e == m + Len(Quarter)
    IN  IF /\ WordBoundary(s, i)
           /\ d >= 1
           /\ j + 1 <= Len(s)
           /\ ToLowerCase(SubSeq(s, j, j + 1)) \in OrdinalSuffixes
           /\ w >= 1
           /\ e - 1 <= Len(s)
           /\ ToLowerCase(SubSeq(s, m, e - 1)) = Quarter
           /\ WordBoundary(s, e)
        THEN e
        ELSE 0

\* .replace(/\b(\d+)(?:st|nd|rd|th)\s+quarter\b/gi, 'Q$1'), from position i on
RECURSIVE ReplaceOrdinalQuarter(_, _)
ReplaceOrdinalQuarter(s, i) ==
    IF i > Len(s) THEN <<>>
    ELSE LET e == OrdinalQuarterMatch(s, i)
         IN  IF e # 0
             THEN <<"Q">> \o SubSeq(s, i, i + DigitRun(s, i) - 1)
                          \o ReplaceOrdinalQuarter(s, e)
             ELSE <<s[i]>> \o ReplaceOrdinalQuarter(s, i + 1)

\* /\bquarter\b/i anchored at position i
QuarterWordAt(s, i) ==
    /\ WordBoundary(s, i)
    /\ i + Len(Quarter) - 1 <= Len(s)
    /\ ToLowerCase(SubSeq(s, i, i + Len(Quarter) - 1)) = Quarter
    /\ WordBoundary(s, i + Len(Quarter))

\* .replace(/\bquarter\b/gi, 'Q'), from position i on
RECURSIVE ReplaceQuarterWord(_, _)
ReplaceQuarterWord(s, i) ==
    IF i > Len(s) THEN <<>>
    ELSE IF QuarterWordAt(s, i)
         THEN <<"Q">> \o ReplaceQuarterWord(s, i + Len(Quarter))
         ELSE <<s[i]>> \o ReplaceQuarterWord(s, i + 1)

\* .replace(/\s+/g, ' '), from position i on
RECURSIVE CollapseSpaces(_, _)
CollapseSpaces(s, i) ==
    IF i > Len(s) THEN <<>>
    ELSE IF IsSpace(s[i])
         THEN <<" ">> \o CollapseSpaces(s, i + SpaceRun(s, i))
         ELSE <<s[i]>> \o CollapseSpaces(s, i + 1)

\* formatLiveStatus without its second replacement (the standalone word):
\* the variant C4 is checked against
formatLiveStatusOrdinalOnly(st) ==
    Trim(CollapseSpaces(ReplaceOrdinalQuarter(StringOrEmpty(st), 1), 1))

formatLiveStatus(st) ==
    Trim(CollapseSpaces(
        ReplaceQuarterWord(
            ReplaceOrdinalQuarter(StringOrEmpty(st), 1), 1), 1))

\* gameStateLabel testing the live keywords before the final ones, as
\* gameDisplayRank does: the variant C1 is checked against
gameStateLabelLiveFirst(st) ==
    IF isLiveStatus(st)
    THEN (IF formatLiveStatus(st) # <<>> THEN formatLiveStatus(st) ELSE LabelLive)
    ELSE IF isCompletedStatus(st) THEN LabelComplete
    ELSE LabelScheduled

\* gameStateLabel(game), given game?.status
gameStateLabel(st) ==
    IF isCompletedStatus(st) THEN LabelComplete
    ELSE IF isLiveStatus(st)
         THEN (IF formatLiveStatus(st) # <<>> THEN formatLiveStatus(st) ELSE LabelLive)
         ELSE LabelScheduled

\* gameDisplayRank(game), given game?.status
gameDisplayRank(st) ==
    IF isLiveStatus(st) THEN 0
    ELSE IF isCompletedStatus(st) THEN 2
    ELSE 1

----------------------------------------------------------------------------
(* The status classifier applied to one game's status.                     *)

\* the pieces status texts are assembled from: the keywords of both
\* classifiers in mixed case, ordinals, digits, whitespace and filler
StatusFragments ==
    { <<"F","i","n","a","l">>, <<"c","o","m","p","l","e","t","e","d">>,
      <<"I","n"," ","P","r","o","g","r","e","s","s">>, <<"l","i","v","e">>,
      <<"Q","t","r">>, <<"p","e","r","i","o","d">>, <<"I","n","n","i","n","g">>,
      <<"Q","u","a","r","t","e","r">>, <<"q","u","a","r","t","e","r">>,
      <<"4","t","h">>, <<"2","N","D">>, <<"4">>,
      <<" ">>, <<"\t">>, <<"x">>, <<"-">> }

StatusTexts ==
    { Concat(parts) :
        parts \in UNION { [1..n -> StatusFragments] : n \in 0..MaxStatusParts } }

\* game?.status: absent game or field, null, a number, or a string
StatusValues ==
    {Undefined, Null, Num(0), Num(4)} \cup { Str(s) : s \in StatusTexts }

NoLabel == <<>>
NoValue == <<>>

\* the variables of the components a specification does not exercise
IdleStatus == status = NoValue /\ stateLabel = NoLabel /\ displayRank = NoValue
IdleSort == games = NoValue /\ sortedGames = NoValue /\ teamScores = NoValue
IdleSchedule ==
    /\ todayGamesPayload = NoValue
    /\ todayLeagues = NoValue
    /\ yesterdayLeagues = NoValue
    /\ sortedTodayLeagues = NoValue
    /\ sortedYesterdayLeagues = NoValue
    /\ todayEmptyNotice = FALSE
IdleTeam ==
    /\ team = NoValue
    /\ playedGames = NoValue
    /\ playedGamesWithRecord = NoValue
    /\ teamRecord = NoValue
IdleStats == displayPlayers = NoValue /\ playerStats = NoValue
IdleView ==
    /\ routeParams = ""
    /\ loading = FALSE
    /\ error = ""
    /\ selectedGameId = NoValue
    /\ gameStatsPlayers = NoValue
    /\ gameStatsLoading = FALSE
    /\ gameStatsMessage = ""
    /\ teamRequests = {}
    /\ statsRequests = {}
    /\ viewEvents = 0
    /\ latestLoad = 0
    /\ lastStatsOutcome = ""
    /\ statsSettled = 0
IdleHome ==
    /\ loadingTodayGames = FALSE
    /\ todayGamesError = ""
    /\ todayGamesIntervalId = NoValue
    /\ homeLifecycle = ""
    /\ mountedHook = ""
    /\ windowIntervals = {}
    /\ scheduleRequests = {}
    /\ rosterLoad = ""
    /\ scheduleFetches = 0
    /\ lastScheduleResult = ""
IdleMenu ==
    /\ menuTeamsByLeague = NoValue
    /\ loadingTeamsByLeague = NoValue
    /\ openLeague = NoValue
    /\ menuRequests = NoValue
    /\ menuFetches = NoValue
IdleRoute ==
    /\ teamsResponses = NoValue
    /\ teamsByLeague = NoValue
    /\ linkLeagueId = NoValue
    /\ linkTeamName = NoValue
    /\ linkRoute = NoValue
    /\ linkLabel = NoValue

InitStatus ==
    /\ pc = "status"
    /\ status \in StatusValues
    /\ stateLabel = NoLabel
    /\ displayRank = NoValue
    /\ IdleSort /\ IdleSchedule /\ IdleTeam /\ IdleRoute /\ IdleStats
    /\ IdleView /\ IdleHome /\ IdleMenu

\* the template renders gameStateLabel(game)
LabelGame ==
    /\ pc = "status"
    /\ stateLabel' = gameStateLabel(status)
    /\ pc' = "labelled"
    /\ UNCHANGED <<status, displayRank, sortVars, scheduleVars, teamVars, routeVars,
                   statsVars, menuVars, homeVars, viewVars>>

\* the sorter's comparator evaluates gameDisplayRank(game)
RankGame ==
    /\ pc = "labelled"
    /\ displayRank' = gameDisplayRank(status)
    /\ pc' = "ranked"
    /\ UNCHANGED <<status, stateLabel, sortVars, scheduleVars, teamVars, routeVars,
                   statsVars, menuVars, homeVars, viewVars>>

NextStatus == LabelGame \/ RankGame

SpecStatus == InitStatus /\ [][NextStatus]_vars

----------------------------------------------------------------------------
(* Home.vue: the display sorter and the score column.                      *)

\* a value that may or may not be an array (Array.isArray)
NotArray == [arr |-> FALSE, items |-> <<>>]
Arr(items) == [arr |-> TRUE, items |-> items]

\* the comparator of sortGamesForDisplay with the tie-break reversed: the
\* variant C5 is checked against
compareEntriesTieReversed(a, b) ==
    LET rankDiff == gameDisplayRank(a.game.status) - gameDisplayRank(b.game.status)
    IN  IF rankDiff # 0 THEN rankDiff ELSE b.index - a.index

\* the comparator of sortGamesForDisplay with the rank difference reversed:
\* the variant C6 is checked against
compareEntriesRankReversed(a, b) ==
    LET rankDiff == gameDisplayRank(b.game.status) - gameDisplayRank(a.game.status)
    IN  IF rankDiff # 0 THEN rankDiff ELSE a.index - b.index

\* the comparator handed to sort() by sortGamesForDisplay
compareEntries(a, b) ==
    LET rankDiff == gameDisplayRank(a.game.status) - gameDisplayRank(b.game.status)
    IN  IF rankDiff # 0 THEN rankDiff ELSE a.index - b.index

\* Array.prototype.sort with compareEntries: a stable insertion sort (an
\* element moves in front of exactly those it compares smaller than)
RECURSIVE InsertEntry(_, _)
InsertEntry(sorted, x) ==
    IF sorted # <<>> /\ compareEntries(sorted[Len(sorted)], x) > 0
    THEN InsertEntry(SubSeq(sorted, 1, Len(sorted) - 1), x) \o <<sorted[Len(sorted)]>>
    ELSE sorted \o <<x>>

RECURSIVE SortEntries(_)
SortEntries(entries) ==
    IF entries = <<>> THEN <<>>
    ELSE InsertEntry(SortEntries(SubSeq(entries, 1, Len(entries) - 1)),
                     entries[Len(entries)])

sortGamesForDisplay(gs) ==
    IF ~gs.arr THEN <<>>
    ELSE LET entries == [i \in DOMAIN gs.items |-> [game |-> gs.items[i], index |-> i - 1]]
             sorted == SortEntries(entries)
         IN  [i \in DOMAIN sorted |-> sorted[i].game]

\* the games array after the call if sort() were applied to the array itself
gamesLeftBySortInPlace(gs) == IF gs.arr THEN Arr(sortGamesForDisplay(gs)) ELSE gs

\* the games array after sortGamesForDisplay has returned: map() builds a
\* new array of { game, index } entries and sort() reorders that array
gamesLeftBySort(gs) == gs

\* displayTeamScore that never suppresses the score: the variant C9 is
\* checked against
displayTeamScoreAlways(game, side) ==
    IF side = "away" THEN Trim(StringNullish(game.away_score))
    ELSE Trim(StringNullish(game.home_score))

displayTeamScore(game, side) ==
    IF ~isCompletedStatus(game.status) /\ ~isLiveStatus(game.status) THEN <<>>
    ELSE IF side = "away" THEN Trim(StringNullish(game.away_score))
    ELSE Trim(StringNullish(game.home_score))

----------------------------------------------------------------------------
(* The display sorter applied to one games value.                          *)

SampleStatuses ==
    { Str(<<"F","i","n","a","l">>),
      Str(<<"I","n"," ","P","r","o","g","r","e","s","s">>),
      Str(<<"7",":","0","0">>),
      Str(<<"F","i","n","a","l"," ","Q","t","r">>),
      Undefined }

\* the away and the home score of a sample game
SampleScores ==
    { [away |-> Num(3), home |-> Str(<<" ","1","0","7"," ">>)],
      [away |-> Undefined, home |-> Num(0)] }

SampleGames ==
    { [status |-> st, away_score |-> sc.away, home_score |-> sc.home] :
        st \in SampleStatuses, sc \in SampleScores }

GamesValues ==
    {NotArray} \cup
    { Arr(gs) : gs \in UNION { [1..n -> SampleGames] : n \in 0..MaxGames } }

InitSort ==
    /\ pc = "games"
    /\ games \in GamesValues
    /\ sortedGames = NoValue
    /\ teamScores = NoValue
    /\ IdleStatus /\ IdleSchedule /\ IdleTeam /\ IdleRoute /\ IdleStats
    /\ IdleView /\ IdleHome /\ IdleMenu

\* sortLeaguesForDisplay calls sortGamesForDisplay(league.games)
SortGames ==
    /\ pc = "games"
    /\ sortedGames' = sortGamesForDisplay(games)
    /\ games' = gamesLeftBySort(games)
    /\ pc' = "sorted"
    /\ UNCHANGED <<teamScores, statusVars, scheduleVars, teamVars, routeVars,
                   statsVars, menuVars, homeVars, viewVars>>

\* the template renders displayTeamScore(game, 'away') and (game, 'home')
\* for every game of the sorted list
RenderScores ==
    /\ pc = "sorted"
    /\ teamScores' = [i \in DOMAIN sortedGames |->
                        [away |-> displayTeamScore(sortedGames[i], "away"),
                         home |-> displayTeamScore(sortedGames[i], "home")]]
    /\ pc' = "rendered"
    /\ UNCHANGED <<games, sortedGames, statusVars, scheduleVars, teamVars, routeVars,
                   statsVars, menuVars, homeVars, viewVars>>

NextSort == SortGames \/ RenderScores

SpecSort == InitSort /\ [][NextSort]_vars

----------------------------------------------------------------------------
(* Home.vue: the schedule aggregator.                                      *)

\* payload.today / payload.yesterday: absent, or an object with a leagues
\* field that is an array or not
NoSection == [present |-> FALSE, leagues |-> NotArray]
Section(ls) == [present |-> TRUE, leagues |-> ls]

\* the payload {} that the view starts with and falls back to
EmptyPayload ==
    [nullish |-> FALSE, today |-> NoSection, yesterday |-> NoSection,
     leagues |-> NotArray]

\* a null response body
NullData ==
    [nullish |-> TRUE, today |-> NoSection, yesterday |-> NoSection,
     leagues |-> NotArray]

normalizeLeagues(value) == IF ~value.arr THEN <<>> ELSE value.items

\* todayLeagues that also falls back to the top-level leagues when
\* today.leagues is an empty array: the variant C8 is checked against
todayLeaguesOfFallbackOnEmpty(payload) ==
    IF payload.today.present /\ payload.today.leagues.arr
       /\ payload.today.leagues.items # <<>>
    THEN normalizeLeagues(payload.today.leagues)
    ELSE normalizeLeagues(payload.leagues)

\* the computed todayLeagues
todayLeaguesOf(payload) ==
    IF payload.today.present /\ payload.today.leagues.arr
    THEN normalizeLeagues(payload.today.leagues)
    ELSE normalizeLeagues(payload.leagues)

\* the computed yesterdayLeagues
yesterdayLeaguesOf(payload) ==
    IF payload.yesterday.present /\ payload.yesterday.leagues.arr
    THEN normalizeLeagues(payload.yesterday.leagues)
    ELSE <<>>

\* totalGames counting one for every league, array or not: the variant C7
\* is checked against
RECURSIVE totalGamesPerLeague(_)
totalGamesPerLeague(leagues) ==
    IF leagues = <<>> THEN 0
    ELSE totalGamesPerLeague(SubSeq(leagues, 1, Len(leagues) - 1)) + 1

\* leagues.reduce((count, league) => count + (isArray ? length : 0), 0)
RECURSIVE totalGames(_)
totalGames(leagues) ==
    IF leagues = <<>> THEN 0
    ELSE totalGames(SubSeq(leagues, 1, Len(leagues) - 1))
         + (IF leagues[Len(leagues)].games.arr
            THEN Len(leagues[Len(leagues)].games.items)
            ELSE 0)

hasNoTodayGames(payload) == totalGames(todayLeaguesOf(payload)) = 0
hasAnyYesterdayGames(payload) == totalGames(yesterdayLeaguesOf(payload)) > 0

sortLeaguesForDisplay(leagues) ==
    [i \in DOMAIN leagues |->
        [leagues[i] EXCEPT !.games = Arr(sortGamesForDisplay(leagues[i].games))]]

\* the leagues array after sortLeaguesForDisplay has returned: map() builds
\* a new array and the spread a new object for every league
leaguesLeftBySort(leagues) == leagues

----------------------------------------------------------------------------
(* The schedule aggregator applied to one response of /games/today.        *)

SampleFinalGame ==
    [status |-> Str(<<"F","i","n","a","l">>), away_score |-> Num(3),
     home_score |-> Num(0)]
SampleLiveGame ==
    [status |-> Str(<<"I","n"," ","P","r","o","g","r","e","s","s">>),
     away_score |-> Num(3), home_score |-> Num(0)]

\* league groups: a games field that is no array, an empty one, and one
\* whose two games the sorter reorders
SampleLeagues ==
    { [id |-> "nba", games |-> NotArray],
      [id |-> "nhl", games |-> Arr(<<>>)],
      [id |-> "mlb", games |-> Arr(<<SampleFinalGame, SampleLiveGame>>)] }

LeagueArrays ==
    { Arr(ls) : ls \in UNION { [1..n -> SampleLeagues] : n \in 0..MaxLeagues } }

Sections == {NoSection, Section(NotArray)} \cup { Section(ls) : ls \in LeagueArrays }

Payloads ==
    {NullData} \cup
    { [nullish |-> FALSE, today |-> t, yesterday |-> y, leagues |-> l] :
        t \in Sections, y \in Sections, l \in {NotArray} \cup LeagueArrays }

InitSchedule ==
    /\ pc = "fetch"
    /\ todayGamesPayload = EmptyPayload
    /\ todayLeagues = <<>>
    /\ yesterdayLeagues = <<>>
    /\ sortedTodayLeagues = <<>>
    /\ sortedYesterdayLeagues = <<>>
    /\ todayEmptyNotice = FALSE
    /\ IdleStatus /\ IdleSort /\ IdleTeam /\ IdleRoute /\ IdleStats
    /\ IdleView /\ IdleHome /\ IdleMenu

\* todayGamesPayload.value = data || {}, and the computed values and the
\* template condition that depend on it
ReceiveSchedule(data) ==
    LET payload == IF data.nullish THEN EmptyPayload ELSE data
    IN  /\ pc = "fetch"
        /\ todayGamesPayload' = payload
        /\ todayLeagues' = leaguesLeftBySort(todayLeaguesOf(payload))
        /\ yesterdayLeagues' = leaguesLeftBySort(yesterdayLeaguesOf(payload))
        /\ sortedTodayLeagues' = sortLeaguesForDisplay(todayLeaguesOf(payload))
        /\ sortedYesterdayLeagues' = sortLeaguesForDisplay(yesterdayLeaguesOf(payload))
        /\ todayEmptyNotice' = (hasNoTodayGames(payload) /\ hasAnyYesterdayGames(payload))
        /\ pc' = "shown"
        /\ UNCHANGED <<statusVars, sortVars, teamVars, routeVars, statsVars, menuVars,
                   homeVars, viewVars>>

NextSchedule == \E data \in Payloads : ReceiveSchedule(data)

SpecSchedule == InitSchedule /\ [][NextSchedule]_vars

----------------------------------------------------------------------------
(* Team.vue: the record reconstructor.                                     *)

\* a JavaScript number that may be NaN
NaN == [nan |-> TRUE, v |-> 0]
Number(k) == [nan |-> FALSE, v |-> k]

\* Number.isFinite(x) ? x : 0
FiniteOrZero(x) == IF x.nan THEN 0 ELSE x.v

\* the value of the digits s[i..j]
RECURSIVE DigitsValue(_, _, _)
DigitsValue(s, i, j) ==
    IF j < i THEN 0 ELSE DigitsValue(s, i, j - 1) * 10 + DigitValue(s[j])

\* Number.parseInt(s, 10): leading whitespace, an optional sign, then the
\* longest run of digits; NaN when there is no digit
ParseInt(s) ==
    LET t == TrimStart(s)
        signed == t # <<>> /\ t[1] \in {"+", "-"}
        from == IF signed THEN 2 ELSE 1
        d == DigitRun(t, from)
    IN  IF d = 0 THEN NaN
        ELSE IF signed /\ t[1] = "-"
             THEN Number(0 - DigitsValue(t, from, from + d - 1))
             ELSE Number(DigitsValue(t, from, from + d - 1))

\* String.prototype.split('-')
RECURSIVE SplitDash(_)
SplitDash(s) ==
    IF \E k \in DOMAIN s : s[k] = "-"
    THEN LET k == CHOOSE k \in DOMAIN s :
                     s[k] = "-" /\ \A m \in 1..(k - 1) : s[m] # "-"
         IN  <<SubSeq(s, 1, k - 1)>> \o SplitDash(SubSeq(s, k + 1, Len(s)))
    ELSE <<s>>

\* the days from 1970-01-01 to the civil date y-m-d (Date.parse returns
\* this number times 86400000)
DaysFromCivil(y, m, d) ==
    LET yy  == IF m <= 2 THEN y - 1 ELSE y
        era == yy \div 400
        yoe == yy - era * 400
        mp  == IF m > 2 THEN m - 3 ELSE m + 9
        doy == (153 * mp + 2) \div 5 + d - 1
        doe == yoe * 365 + yoe \div 4 - yoe \div 100 + doy
    IN  era * 146097 + doe - 719468

\* Date.parse of a date-only ISO string "YYYY-MM-DD", in days; NaN for any
\* other text
DateParse(s) ==
    IF /\ Len(s) = 10
       /\ s[5] = "-" /\ s[8] = "-"
       /\ \A k \in {1, 2, 3, 4, 6, 7, 9, 10} : IsDigit(s[k])
       /\ DigitsValue(s, 6, 7) \in 1..12
       /\ DigitsValue(s, 9, 10) \in 1..31
    THEN Number(DaysFromCivil(DigitsValue(s, 1, 4), DigitsValue(s, 6, 7),
                              DigitsValue(s, 9, 10)))
    ELSE NaN

\* the comparator handed to sort() by playedGames
compareByDateDesc(first, second) ==
    LET firstDate == DateParse(StringOrEmpty(first.date))
        secondDate == DateParse(StringOrEmpty(second.date))
    IN  FiniteOrZero(secondDate) - FiniteOrZero(firstDate)

\* Array.prototype.sort with compareByDateDesc (stable)
RECURSIVE InsertByDate(_, _)
InsertByDate(sorted, x) ==
    IF sorted # <<>> /\ compareByDateDesc(sorted[Len(sorted)], x) > 0
    THEN InsertByDate(SubSeq(sorted, 1, Len(sorted) - 1), x) \o <<sorted[Len(sorted)]>>
    ELSE sorted \o <<x>>

RECURSIVE SortByDate(_)
SortByDate(gs) ==
    IF gs = <<>> THEN <<>>
    ELSE InsertByDate(SortByDate(SubSeq(gs, 1, Len(gs) - 1)), gs[Len(gs)])

\* Array.prototype.reverse
Reverse(s) == [i \in DOMAIN s |-> s[Len(s) + 1 - i]]

NoTeam == [loaded |-> FALSE, games |-> NotArray]
Team(gs) == [loaded |-> TRUE, games |-> gs]

\* the computed playedGames
playedGamesOf(t) ==
    IF ~t.loaded \/ ~t.games.arr THEN <<>>
    ELSE LET IsPlayed(g) == g.status = "played"
         IN  SortByDate(SelectSeq(t.games.items, IsPlayed))

\* team.value after playedGames has been computed: the spread copies
\* team.value.games, filter() builds a new array and sort() reorders that
teamLeftByPlayedGames(t) == t

\* the two numbers of a score string: split('-').map(parseInt), the first
\* two elements, a missing one being undefined
ScorePair(game) ==
    LET pieces == SplitDash(StringOrEmpty(game.score))
    IN  [homeRaw |-> ParseInt(pieces[1]),
         awayRaw |-> IF Len(pieces) >= 2 THEN ParseInt(pieces[2]) ELSE NaN]

\* { ...game, recordAfter }
Annotated(game, recordAfter) ==
    [f \in DOMAIN game \cup {"recordAfter"} |->
        IF f = "recordAfter" THEN recordAfter ELSE game[f]]

\* the map callback with the two sides of the score exchanged
RECURSIVE WithRecordAwayFirst(_, _, _)
WithRecordAwayFirst(chronological, wins, losses) ==
    IF chronological = <<>> THEN <<>>
    ELSE LET game == Head(chronological)
             sp == ScorePair(game)
             parsed == ~sp.homeRaw.nan /\ ~sp.awayRaw.nan
             teamScore == IF game.home THEN sp.awayRaw.v ELSE sp.homeRaw.v
             opponentScore == IF game.home THEN sp.homeRaw.v ELSE sp.awayRaw.v
             w == IF parsed /\ teamScore > opponentScore THEN wins + 1 ELSE wins
             l == IF parsed /\ teamScore < opponentScore THEN losses + 1 ELSE losses
             recordAfter == IF parsed
                            THEN IntToString(w) \o <<"-">> \o IntToString(l)
                            ELSE <<>>
         IN  <<Annotated(game, recordAfter)>>
             \o WithRecordAwayFirst(Tail(chronological), w, l)

\* the map callback of playedGamesWithRecord applied to the games of
\* `chronological` in order, with the running wins and losses
RECURSIVE WithRecord(_, _, _)
WithRecord(chronological, wins, losses) ==
    IF chronological = <<>> THEN <<>>
    ELSE LET game == Head(chronological)
             sp == ScorePair(game)
             parsed == ~sp.homeRaw.nan /\ ~sp.awayRaw.nan
             teamScore == IF game.home THEN sp.homeRaw.v ELSE sp.awayRaw.v
             opponentScore == IF game.home THEN sp.awayRaw.v ELSE sp.homeRaw.v
             w == IF parsed /\ teamScore > opponentScore THEN wins + 1 ELSE wins
             l == IF parsed /\ teamScore < opponentScore THEN losses + 1 ELSE losses
             recordAfter == IF parsed
                            THEN IntToString(w) \o <<"-">> \o IntToString(l)
                            ELSE <<>>
         IN  <<Annotated(game, recordAfter)>>
             \o WithRecord(Tail(chronological), w, l)

\* the computed playedGamesWithRecord
playedGamesWithRecordOf(played) ==
    IF Len(played) = 0 THEN <<>>
    ELSE Reverse(WithRecord(Reverse(played), 0, 0))

\* playedGames.value after playedGamesWithRecord has been computed: the
\* spread copies it, reverse() reorders the copy, map() builds a new array
\* of new objects and the last reverse() reorders that one
playedLeftByWithRecord(played) == played

\* teamRecord read from the oldest entry of the output
teamRecordOfOldest(withRecord) ==
    IF Len(withRecord) = 0 THEN <<>> ELSE withRecord[Len(withRecord)].recordAfter

\* the computed teamRecord
teamRecordOf(withRecord) ==
    IF Len(withRecord) = 0 THEN <<>> ELSE withRecord[1].recordAfter

----------------------------------------------------------------------------
(* The record reconstructor applied to one team.                           *)

Date1 == Str(<<"2","0","2","4","-","0","1","-","0","5">>)
Date2 == Str(<<"2","0","2","4","-","0","1","-","0","6">>)
Date3 == Str(<<"2","0","2","4","-","0","1","-","0","7">>)
DateOld == Str(<<"1","9","6","9","-","1","2","-","3","1">>)
DateBad == Str(<<"T","B","D">>)

Entry(st, dt, hm, sc) == [status |-> st, date |-> dt, home |-> hm, score |-> sc]

\* the three games of the specification's worked example
ExampleWin  == Entry("played", Date1, TRUE, Str(<<"1","0","-","5">>))
ExampleLoss == Entry("played", Date2, TRUE, Str(<<"3","-","7">>))
ExampleTie  == Entry("played", Date3, TRUE, Str(<<"8","-","8">>))

SampleHistory ==
    { ExampleWin, ExampleLoss, ExampleTie,
      Entry("played", Date2, FALSE, Str(<<"3","-","7">>)),
      Entry("played", DateBad, TRUE, Str(<<"x","-","1">>)),
      Entry("played", DateOld, FALSE, Str(<<"1","0","-","5">>)),
      Entry("played", Undefined, TRUE, Str(<<" ","2"," ","-"," ","1","2","a">>)),
      Entry("played", Date3, FALSE, Str(<<"7","-">>)),
      Entry("scheduled", Date3, TRUE, Undefined) }

Teams ==
    {NoTeam, Team(NotArray)} \cup
    { Team(Arr(gs)) : gs \in UNION { [1..n -> SampleHistory] : n \in 0..MaxHistory } }

InitTeam ==
    /\ pc = "team"
    /\ team \in Teams
    /\ playedGames = <<>>
    /\ playedGamesWithRecord = <<>>
    /\ teamRecord = <<>>
    /\ IdleStatus /\ IdleSort /\ IdleSchedule /\ IdleRoute /\ IdleStats
    /\ IdleView /\ IdleHome /\ IdleMenu

\* the computed playedGames is evaluated for team.value
ComputePlayedGames ==
    /\ pc = "team"
    /\ playedGames' = playedGamesOf(team)
    /\ team' = teamLeftByPlayedGames(team)
    /\ pc' = "played"
    /\ UNCHANGED <<playedGamesWithRecord, teamRecord,
                   statusVars, sortVars, scheduleVars, routeVars, statsVars,
                   menuVars, homeVars, viewVars>>

\* the computed playedGamesWithRecord and teamRecord are evaluated
ComputeRecords ==
    /\ pc = "played"
    /\ playedGamesWithRecord' = playedGamesWithRecordOf(playedGames)
    /\ teamRecord' = teamRecordOf(playedGamesWithRecordOf(playedGames))
    /\ playedGames' = playedLeftByWithRecord(playedGames)
    /\ pc' = "records"
    /\ UNCHANGED <<team, statusVars, sortVars, scheduleVars,
                   routeVars, statsVars, menuVars, homeVars, viewVars>>

NextTeam == ComputePlayedGames \/ ComputeRecords

SpecTeam == InitTeam /\ [][NextTeam]_vars

----------------------------------------------------------------------------
(* Home.vue: the roster resolver.                                          *)

\* [a-z0-9] of the regular expressions of slugify
IsSlugChar(c) == IsLower(c) \/ IsDigit(c)

\* the string without its leading characters that are not in [a-z0-9]
RECURSIVE SkipNonSlugChars(_)
SkipNonSlugChars(s) ==
    IF s # <<>> /\ ~IsSlugChar(Head(s)) THEN SkipNonSlugChars(Tail(s)) ELSE s

\* replace(/[^a-z0-9]+/g, '-')
RECURSIVE HyphenateRuns(_)
HyphenateRuns(s) ==
    IF s = <<>> THEN <<>>
    ELSE IF IsSlugChar(Head(s)) THEN <<Head(s)>> \o HyphenateRuns(Tail(s))
    ELSE <<"-">> \o HyphenateRuns(SkipNonSlugChars(Tail(s)))

\* replace(/^-+|-+$/g, '')
RECURSIVE StripHyphens(_)
StripHyphens(s) ==
    IF s # <<>> /\ Head(s) = "-" THEN StripHyphens(Tail(s))
    ELSE IF s # <<>> /\ s[Len(s)] = "-" THEN StripHyphens(SubSeq(s, 1, Len(s) - 1))
    ELSE s

\* slugify without the removal of leading and trailing hyphens
slugifyKeepEdges(value) == HyphenateRuns(ToLowerCase(StringOrEmpty(value)))

slugify(value) == StripHyphens(HyphenateRuns(ToLowerCase(StringOrEmpty(value))))

\* the object {} and the assignment lookup[name] = id
EmptyLookup == [k \in {} |-> <<>>]
Put(lookup, name, id) ==
    [k \in DOMAIN lookup \cup {name} |-> IF k = name THEN id ELSE lookup[k]]

\* the loop of buildTeamLookup over the roster entries, in order
RECURSIVE BuildLookup(_, _)
BuildLookup(entries, lookup) ==
    IF entries = <<>> THEN lookup
    ELSE LET entry == Head(entries)
             name == Trim(ToLowerCase(StringOrEmpty(entry.name)))
             id == Trim(StringOrEmpty(entry.id))
         IN  BuildLookup(Tail(entries),
                         IF name # <<>> /\ id # <<>>
                         THEN Put(lookup, name, id) ELSE lookup)

\* buildTeamLookup with the names kept as written (no lower-casing)
buildTeamLookupRawCase(teams) ==
    LET RECURSIVE Loop(_, _)
        Loop(entries, lookup) ==
            IF entries = <<>> THEN lookup
            ELSE LET entry == Head(entries)
                     name == Trim(StringOrEmpty(entry.name))
                     id == Trim(StringOrEmpty(entry.id))
                 IN  Loop(Tail(entries),
                          IF name # <<>> /\ id # <<>>
                          THEN Put(lookup, name, id) ELSE lookup)
    IN  Loop(IF teams.arr THEN teams.items ELSE <<>>, EmptyLookup)

\* buildTeamLookup(teams): `teams || []` is the empty list for a missing value
buildTeamLookup(teams) ==
    BuildLookup(IF teams.arr THEN teams.items ELSE <<>>, EmptyLookup)

RoutePrefix == <<"/","t","e","a","m","s","/">>

\* displayTeamName: the rendered label of a team name
displayTeamName(teamName) ==
    LET normalized == ToLowerCase(Trim(StringOrEmpty(teamName)))
    IN  IF normalized = <<"o","k","l","a","h","o","m","a"," ","c","i","t","y"," ","t","h","u","n","d","e","r">>
        THEN Str(<<"O","K","C"," ","T","h","u","n","d","e","r">>)
        ELSE IF normalized = <<"o","k","l","a","h","o","m","a"," ","c","i","t","y">>
        THEN Str(<<"O","K","C">>)
        ELSE teamName

\* teamsByLeague.value?.[leagueId]?.[key] || fallbackId
RouteId(leagueId, key, fallbackId) ==
    IF /\ leagueId \in DOMAIN teamsByLeague
       /\ key \in DOMAIN teamsByLeague[leagueId]
       /\ teamsByLeague[leagueId][key] # <<>>
    THEN teamsByLeague[leagueId][key]
    ELSE fallbackId

\* teamRoute resolving the rendered label instead of the raw name
teamRouteOfLabel(leagueId, teamName) ==
    LET key == Trim(ToLowerCase(StringOrEmpty(displayTeamName(teamName))))
    IN  RoutePrefix \o leagueId \o <<"/">>
            \o RouteId(leagueId, key, slugify(displayTeamName(teamName)))

teamRoute(leagueId, teamName) ==
    LET key == Trim(ToLowerCase(StringOrEmpty(teamName)))
        fallbackId == slugify(teamName)
    IN  RoutePrefix \o leagueId \o <<"/">> \o RouteId(leagueId, key, fallbackId)

\* the leagues loadLeagueTeams asks for
Leagues == << <<"n","b","a">>, <<"n","h","l">>, <<"m","l","b">> >>

\* a response of /leagues/{id}/teams: failed (not ok, or the request or its
\* JSON threw), or a body whose teams is an array or missing
FailedResponse == [ok |-> FALSE, teams |-> NotArray]
TeamsResponse(teams) == [ok |-> TRUE, teams |-> teams]

\* the object loadLeagueTeams assigns to teamsByLeague.value
LoadedLookups(responses) ==
    [leagueId \in Range(Leagues) |->
        IF ~responses[leagueId].ok THEN EmptyLookup
        ELSE buildTeamLookup(responses[leagueId].teams)]

----------------------------------------------------------------------------
(* The roster resolver applied to the team links of the schedule board.    *)

RosterEntry(name, id) == [name |-> name, id |-> id]

SampleRoster ==
    { RosterEntry(Str(<<"O","k","l","a","h","o","m","a"," ","C","i","t","y"," ","T","h","u","n","d","e","r">>),
                  Str(<<"o","k","c">>)),
      RosterEntry(Str(<<" ","o","k","l","a","h","o","m","a"," ","c","i","t","y"," ","T","H","U","N","D","E","R">>),
                  Str(<<" ","t","h","u"," ">>)),
      RosterEntry(Undefined, Str(<<"g","h","o","s","t">>)),
      RosterEntry(Str(<<"S","t","."," ","L","o","u","i","s"," ","B","l","u","e","s">>), Str(<<" ">>)),
      RosterEntry(Str(<<"O","K","C"," ","T","h","u","n","d","e","r">>),
                  Str(<<"a","l","i","a","s">>)) }

Rosters == UNION { [1..n -> SampleRoster] : n \in 0..MaxRoster }

Responses == {FailedResponse, TeamsResponse(NotArray)}
                 \cup { TeamsResponse(Arr(r)) : r \in Rosters }

\* the responses whose roster has at most one entry
ShortResponses ==
    {FailedResponse, TeamsResponse(Arr(<<>>)),
     TeamsResponse(Arr(<<RosterEntry(Str(<<"O","k","l","a","h","o","m","a"," ","C","i","t","y"," ","T","h","u","n","d","e","r">>),
                                     Str(<<"o","k","c">>))>>))}

SampleTeamNames ==
    { Str(<<"O","k","l","a","h","o","m","a"," ","C","i","t","y"," ","T","h","u","n","d","e","r">>),
      Str(<<" "," ","O","K","L","A","H","O","M","A"," ","C","I","T","Y"," ","T","H","U","N","D","E","R"," ">>),
      Str(<<"O","k","l","a","h","o","m","a"," ","C","i","t","y">>),
      Str(<<"S","t","."," ","L","o","u","i","s"," ","B","l","u","e","s">>),
      Str(<<"O","K","C"," ","T","h","u","n","d","e","r">>),
      Str(<<"-","-","-">>),
      Undefined }

\* the league ids of the payload: the three known leagues and one more
SampleLeagueIds == Range(Leagues) \cup { <<"n","c","a","a">> }

InitRoute ==
    /\ pc = "route"
    /\ \E big \in Range(Leagues), response \in Responses,
             others \in [Range(Leagues) -> ShortResponses] :
           teamsResponses = [l \in Range(Leagues) |->
                                IF l = big THEN response ELSE others[l]]
    /\ teamsByLeague = EmptyLookup
    /\ linkLeagueId = NoValue
    /\ linkTeamName = NoValue
    /\ linkRoute = NoValue
    /\ linkLabel = NoValue
    /\ IdleStatus /\ IdleSort /\ IdleSchedule /\ IdleTeam /\ IdleStats
    /\ IdleView /\ IdleHome /\ IdleMenu

\* loadLeagueTeams: every league's roster is fetched and the lookups are
\* assigned to teamsByLeague.value
LoadLeagueTeams ==
    /\ pc = "route"
    /\ teamsByLeague' = LoadedLookups(teamsResponses)
    /\ pc' = "teams"
    /\ UNCHANGED <<teamsResponses, linkLeagueId, linkTeamName, linkRoute,
                   linkLabel, statusVars, sortVars, scheduleVars, teamVars,
                   statsVars, menuVars, homeVars, viewVars>>

\* the template renders one team link: its target and its label (the
\* schedule may be rendered before the rosters have arrived)
RenderTeamLink(leagueId, teamName) ==
    /\ pc \in {"route", "teams"}
    /\ linkLeagueId' = leagueId
    /\ linkTeamName' = teamName
    /\ linkRoute' = teamRoute(leagueId, teamName)
    /\ linkLabel' = displayTeamName(teamName)
    /\ pc' = "link"
    /\ UNCHANGED <<teamsResponses, teamsByLeague,
                   statusVars, sortVars, scheduleVars, teamVars, statsVars,
                   menuVars, homeVars, viewVars>>

NextRoute ==
    \/ LoadLeagueTeams
    \/ \E leagueId \in SampleLeagueIds, teamName \in SampleTeamNames :
           RenderTeamLink(leagueId, teamName)

SpecRoute == InitRoute /\ [][NextRoute]_vars

----------------------------------------------------------------------------
(* Team.vue: the player stat projector.                                    *)

\* the preference list with goals ahead of assists
preferredOrderGoalsFirst ==
    << <<"p","o","i","n","t","s">>,
       <<"r","e","b","o","u","n","d","s">>,
       <<"g","o","a","l","s">>,
       <<"a","s","s","i","s","t","s">>,
       <<"h","o","m","e","_","r","u","n","s">>,
       <<"r","b","i">>,
       <<"h","i","t","s">>,
       <<"b","a","t","t","i","n","g","_","a","v","g">>,
       <<"a","p","p","e","a","r","a","n","c","e","s">> >>

\* const preferredOrder
preferredOrder ==
    << <<"p","o","i","n","t","s">>,
       <<"r","e","b","o","u","n","d","s">>,
       <<"a","s","s","i","s","t","s">>,
       <<"g","o","a","l","s">>,
       <<"h","o","m","e","_","r","u","n","s">>,
       <<"r","b","i">>,
       <<"h","i","t","s">>,
       <<"b","a","t","t","i","n","g","_","a","v","g">>,
       <<"a","p","p","e","a","r","a","n","c","e","s">> >>

\* the UTF-16 code unit of a character of a stat key
CharCode(c) ==
    IF IsDigit(c) THEN 48 + DigitValue(c)
    ELSE IF IsUpper(c)
         THEN 64 + (CHOOSE i \in DOMAIN UpperLetters : UpperLetters[i] = c)
    ELSE IF IsLower(c)
         THEN 96 + (CHOOSE i \in DOMAIN LowerLetters : LowerLetters[i] = c)
    ELSE 95

\* a < b in the order sort() uses without a comparator: by code units
RECURSIVE StringLess(_, _)
StringLess(a, b) ==
    IF b = <<>> THEN FALSE
    ELSE IF a = <<>> THEN TRUE
    ELSE IF CharCode(Head(a)) # CharCode(Head(b))
         THEN CharCode(Head(a)) < CharCode(Head(b))
    ELSE StringLess(Tail(a), Tail(b))

\* a player row: null, or an object whose stats is missing or an object
\* with its keys in property order
NoStats == [obj |-> FALSE, keys |-> <<>>]
Stats(keys) == [obj |-> TRUE, keys |-> keys]
NullPlayer == [present |-> FALSE, stats |-> NoStats]
Player(stats) == [present |-> TRUE, stats |-> stats]

\* Object.keys(player?.stats || {})
StatKeys(player) ==
    IF player.present /\ player.stats.obj THEN player.stats.keys ELSE <<>>

\* discovered.add(statKey) on a list that keeps every key it is given
AddKeyAgain(discovered, statKey) == discovered \o <<statKey>>

\* discovered.add(statKey): a Set keeps the first insertion of a key
AddKey(discovered, statKey) ==
    IF statKey \in Range(discovered) THEN discovered
    ELSE discovered \o <<statKey>>

RECURSIVE AddKeys(_, _)
AddKeys(discovered, keys) ==
    IF keys = <<>> THEN discovered
    ELSE AddKeys(AddKey(discovered, Head(keys)), Tail(keys))

\* the two nested loops of playerStats: the Set, in insertion order
RECURSIVE Discover(_, _)
Discover(players, discovered) ==
    IF players = <<>> THEN discovered
    ELSE Discover(Tail(players), AddKeys(discovered, StatKeys(Head(players))))

\* sort() that leaves the keys as they are
SortKeysKeepOrder(keys) == keys

\* Array.prototype.sort without a comparator
RECURSIVE InsertKey(_, _)
InsertKey(sorted, key) ==
    IF sorted # <<>> /\ StringLess(key, sorted[Len(sorted)])
    THEN InsertKey(SubSeq(sorted, 1, Len(sorted) - 1), key) \o <<sorted[Len(sorted)]>>
    ELSE sorted \o <<key>>

RECURSIVE SortKeysFrom(_, _)
SortKeysFrom(sorted, keys) ==
    IF keys = <<>> THEN sorted
    ELSE SortKeysFrom(InsertKey(sorted, Head(keys)), Tail(keys))

SortKeys(keys) == SortKeysFrom(<<>>, keys)

\* the computed playerStats
playerStatsOf(players) ==
    IF Len(players) = 0 THEN <<>>
    ELSE LET discovered == Discover(players, <<>>)
             Has(key) == key \in Range(discovered)
             NotPreferred(key) == key \notin Range(preferredOrder)
             ordered == SelectSeq(preferredOrder, Has)
             extra == SortKeys(SelectSeq(discovered, NotPreferred))
         IN  ordered \o extra

----------------------------------------------------------------------------
(* The player stat projector applied to one player collection.             *)

SampleStatKeys ==
    { <<"g","o","a","l","s">>, <<"a","s","s","i","s","t","s">>, <<"p","o","i","n","t","s">>,
      <<"s","t","e","a","l","s">>, <<"b","l","o","c","k","s">>, <<"a","t","_","b","a","t","s">> }

\* the stat maps of the sample: missing, empty, or one or two distinct keys
SampleStats ==
    {NoStats, Stats(<<>>)}
        \cup { Stats(<<k>>) : k \in SampleStatKeys }
        \cup { Stats(<<p[1], p[2]>>) :
                   p \in {p \in SampleStatKeys \X SampleStatKeys : p[1] # p[2]} }

SamplePlayers == {NullPlayer} \cup { Player(st) : st \in SampleStats }

PlayerCollections == UNION { [1..n -> SamplePlayers] : n \in 0..MaxPlayers }

InitStats ==
    /\ pc = "players"
    /\ displayPlayers \in PlayerCollections
    /\ playerStats = <<>>
    /\ IdleStatus /\ IdleSort /\ IdleSchedule /\ IdleTeam /\ IdleRoute
    /\ IdleView /\ IdleHome /\ IdleMenu

\* the computed playerStats is evaluated for displayPlayers.value
ComputePlayerStats ==
    /\ pc = "players"
    /\ playerStats' = playerStatsOf(displayPlayers)
    /\ pc' = "stats"
    /\ UNCHANGED <<displayPlayers, statusVars, sortVars, scheduleVars,
                   teamVars, routeVars, menuVars, homeVars, viewVars>>

NextStats == ComputePlayerStats

SpecStats == InitStats /\ [][NextStats]_vars

----------------------------------------------------------------------------
(* App.vue: the league menu.                                               *)

\* the leagues of the league bar: leagues.value
MenuLeague(id, available) == [id |-> id, available |-> available]

MenuLeagues ==
    { MenuLeague(<<"n","b","a">>, TRUE), MenuLeague(<<"n","h","l">>, TRUE),
      MenuLeague(<<"m","l","b">>, TRUE), MenuLeague(<<"n","f","l">>, FALSE) }

MenuLeagueIds == { league.id : league \in MenuLeagues }

\* an entry of teamsByLeague.value: undefined, or the stored list
NoMenuTeams == [stored |-> FALSE, teams |-> <<>>]
MenuTeams(teams) == [stored |-> TRUE, teams |-> teams]

\* the body of a roster response: data.teams is missing or a list
MenuBodies == { NotArray, Arr(<<>>), Arr(<<[id |-> <<"o","k","c">>]>>) }

\* data.teams || []
TeamsOrEmpty(teams) == IF teams.arr THEN teams.items ELSE <<>>

\* the test before the fetch if an empty stored list did not count
SkipsFetchUnlessEmpty(leagueId) ==
    \/ menuTeamsByLeague[leagueId].stored /\ menuTeamsByLeague[leagueId].teams # <<>>
    \/ loadingTeamsByLeague[leagueId]

\* teamsByLeague.value[league.id] || loadingTeamsByLeague.value[league.id]:
\* a stored list is truthy, also when it is empty
SkipsFetch(leagueId) ==
    menuTeamsByLeague[leagueId].stored \/ loadingTeamsByLeague[leagueId]

\* a call of openLeagueMenu suspended at an await: at the fetch or at
\* response.json()
MenuRequest(leagueId, number, stage) ==
    [league |-> leagueId, number |-> number, stage |-> stage]

InitMenu ==
    /\ pc = "menu"
    /\ menuTeamsByLeague = [id \in MenuLeagueIds |-> NoMenuTeams]
    /\ loadingTeamsByLeague = [id \in MenuLeagueIds |-> FALSE]
    /\ openLeague = <<>>
    /\ menuRequests = {}
    /\ menuFetches = [id \in MenuLeagueIds |-> 0]
    /\ IdleStatus /\ IdleSort /\ IdleSchedule /\ IdleTeam /\ IdleRoute
    /\ IdleView /\ IdleHome /\ IdleStats

\* mouseenter or focusin on a league item: openLeagueMenu(league) up to its
\* first await
OpenLeagueMenu(league) ==
    /\ pc = "menu"
    /\ league.available
    /\ openLeague' = league.id
    /\ IF SkipsFetch(league.id)
       THEN UNCHANGED <<loadingTeamsByLeague, menuRequests, menuFetches, homeVars,
                   viewVars>>
       ELSE /\ menuFetches[league.id] < MaxFetches
            /\ loadingTeamsByLeague' =
                  [loadingTeamsByLeague EXCEPT ![league.id] = TRUE]
            /\ menuFetches' = [menuFetches EXCEPT ![league.id] = @ + 1]
            /\ menuRequests' = menuRequests \cup
                  {MenuRequest(league.id, menuFetches[league.id] + 1, "fetch")}
    /\ UNCHANGED <<pc, menuTeamsByLeague, statusVars, sortVars, scheduleVars,
                   teamVars, routeVars, statsVars, homeVars, viewVars>>

\* mouseenter or focusin on the item of a league that is not available:
\* openLeagueMenu returns at once
OpenUnavailableLeague(league) ==
    /\ pc = "menu"
    /\ ~league.available
    /\ UNCHANGED vars

\* mouseleave, or a click on a team link: closeLeagueMenu
CloseLeagueMenu ==
    /\ pc = "menu"
    /\ openLeague' = <<>>
    /\ UNCHANGED <<pc, menuTeamsByLeague, loadingTeamsByLeague, menuRequests,
                   menuFetches, statusVars, sortVars, scheduleVars, teamVars,
                   routeVars, statsVars, homeVars, viewVars>>

\* the end of a call: the list is stored and the finally block resets the
\* loading flag
FinishRequest(request, teams) ==
    /\ menuTeamsByLeague' =
          [menuTeamsByLeague EXCEPT ![request.league] = MenuTeams(teams)]
    /\ loadingTeamsByLeague' =
          [loadingTeamsByLeague EXCEPT ![request.league] = FALSE]
    /\ menuRequests' = menuRequests \ {request}
    /\ UNCHANGED <<pc, openLeague, menuFetches, statusVars, sortVars,
                   scheduleVars, teamVars, routeVars, statsVars, homeVars,
                   viewVars>>

\* the fetch resolves with a response that is not ok
MenuResponseNotOk(request) ==
    /\ request \in menuRequests /\ request.stage = "fetch"
    /\ FinishRequest(request, <<>>)

\* the fetch resolves with an ok response: the call awaits response.json()
MenuResponseOk(request) ==
    /\ request \in menuRequests /\ request.stage = "fetch"
    /\ menuRequests' = (menuRequests \ {request})
                          \cup {[request EXCEPT !.stage = "json"]}
    /\ UNCHANGED <<pc, menuTeamsByLeague, loadingTeamsByLeague, openLeague,
                   menuFetches, statusVars, sortVars, scheduleVars, teamVars,
                   routeVars, statsVars, homeVars, viewVars>>

\* the body arrives: teamsByLeague[league.id] = data.teams || []
MenuBodyReceived(request, teams) ==
    /\ request \in menuRequests /\ request.stage = "json"
    /\ FinishRequest(request, TeamsOrEmpty(teams))

\* the fetch or response.json() rejects: the catch block stores []
MenuRequestFails(request) ==
    /\ request \in menuRequests
    /\ FinishRequest(request, <<>>)

\* a suspended call of a league's roster request resumes
MenuReply(leagueId) ==
    \E request \in menuRequests :
        /\ request.league = leagueId
        /\ \/ MenuResponseNotOk(request)
           \/ MenuResponseOk(request)
           \/ \E teams \in MenuBodies : MenuBodyReceived(request, teams)
           \/ MenuRequestFails(request)

NextMenu ==
    \/ \E league \in MenuLeagues : OpenLeagueMenu(league)
    \/ \E league \in MenuLeagues : OpenUnavailableLeague(league)
    \/ CloseLeagueMenu
    \/ \E leagueId \in MenuLeagueIds : MenuReply(leagueId)

SpecMenu == InitMenu /\ [][NextMenu]_vars

\* every request is answered or fails in the end: a fetch promise settles
SpecMenuFair ==
    SpecMenu /\ \A leagueId \in MenuLeagueIds : WF_vars(MenuReply(leagueId))

----------------------------------------------------------------------------
(* Home.vue: the loads of the view, the polling interval and its lifetime. *)

\* the message the catch block of loadTodayGames sets
LoadError == "Unable to load games right now."

\* the branch of the template that is rendered
HomeShows ==
    IF loadingTodayGames THEN "loading"
    ELSE IF todayGamesError # "" THEN "error"
    ELSE "board"

\* bodies of /games/today: null, games today, and games yesterday only
HomePayloads ==
    { NullData,
      [nullish |-> FALSE,
       today |-> Section(Arr(<<[id |-> "mlb",
                                games |-> Arr(<<SampleFinalGame, SampleLiveGame>>)]>>)),
       yesterday |-> NoSection, leagues |-> NotArray],
      [nullish |-> FALSE,
       today |-> Section(Arr(<<[id |-> "nhl", games |-> Arr(<<>>)]>>)),
       yesterday |-> Section(Arr(<<[id |-> "mlb",
                                    games |-> Arr(<<SampleFinalGame>>)]>>)),
       leagues |-> NotArray] }

\* the roster responses of the Home view: a failure, or the Thunder's entry
HomeResponses ==
    { FailedResponse,
      TeamsResponse(Arr(<<RosterEntry(Str(<<"O","k","l","a","h","o","m","a"," ","C","i","t","y"," ","T","h","u","n","d","e","r">>),
                                      Str(<<"o","k","c">>))>>)) }

\* the team names of the links the board renders
HomeTeamNames ==
    { Str(<<"O","k","l","a","h","o","m","a"," ","C","i","t","y"," ","T","h","u","n","d","e","r">>),
      Str(<<"S","t","."," ","L","o","u","i","s"," ","B","l","u","e","s">>) }

\* a call of loadTodayGames suspended at an await
ScheduleRequest(number, silent) == [number |-> number, silent |-> silent]

linkVars == <<linkLeagueId, linkTeamName, linkRoute, linkLabel>>
otherViews == <<statusVars, sortVars, teamVars, statsVars, menuVars>>

\* todayGamesPayload.value = payload, and the computed values and the
\* template condition that depend on it
AssignPayload(payload) ==
    /\ todayGamesPayload' = payload
    /\ todayLeagues' = leaguesLeftBySort(todayLeaguesOf(payload))
    /\ yesterdayLeagues' = leaguesLeftBySort(yesterdayLeaguesOf(payload))
    /\ sortedTodayLeagues' = sortLeaguesForDisplay(todayLeaguesOf(payload))
    /\ sortedYesterdayLeagues' = sortLeaguesForDisplay(yesterdayLeaguesOf(payload))
    /\ todayEmptyNotice' = (hasNoTodayGames(payload) /\ hasAnyYesterdayGames(payload))

\* the view after setup
InitHome ==
    /\ pc = "home"
    /\ loadingTodayGames = TRUE
    /\ todayGamesError = ""
    /\ todayGamesPayload = EmptyPayload
    /\ todayLeagues = <<>>
    /\ yesterdayLeagues = <<>>
    /\ sortedTodayLeagues = <<>>
    /\ sortedYesterdayLeagues = <<>>
    /\ todayEmptyNotice = FALSE
    /\ teamsByLeague = EmptyLookup
    /\ teamsResponses = EmptyLookup
    /\ linkLeagueId = NoValue
    /\ linkTeamName = NoValue
    /\ linkRoute = NoValue
    /\ linkLabel = NoValue
    /\ todayGamesIntervalId = Null
    /\ homeLifecycle = "setup"
    /\ mountedHook = "idle"
    /\ windowIntervals = {}
    /\ scheduleRequests = {}
    /\ rosterLoad = "idle"
    /\ scheduleFetches = 0
    /\ lastScheduleResult = "none"
    /\ IdleStatus /\ IdleSort /\ IdleTeam /\ IdleStats /\ IdleMenu
    /\ IdleView

\* onMounted up to its await: loadTodayGames() and loadLeagueTeams() run up
\* to their first fetch
MountHome ==
    /\ pc = "home"
    /\ homeLifecycle = "setup"
    /\ homeLifecycle' = "mounted"
    /\ mountedHook' = "awaiting"
    /\ loadingTodayGames' = TRUE
    /\ todayGamesError' = ""
    /\ scheduleFetches' = scheduleFetches + 1
    /\ scheduleRequests' =
          scheduleRequests \cup {ScheduleRequest(scheduleFetches + 1, FALSE)}
    /\ rosterLoad' = "running"
    /\ UNCHANGED <<pc, todayGamesIntervalId, windowIntervals,
                   lastScheduleResult, scheduleVars, routeVars, otherViews,
                   viewVars>>

\* the finally block without the reset of the loading flag
LoadingLeftUp(request) == loadingTodayGames

\* the finally block of loadTodayGames
LoadingAfter(request) == IF request.silent THEN loadingTodayGames ELSE FALSE

\* a call of loadTodayGames receives an ok response and its body
ScheduleReply(request, data) ==
    /\ request \in scheduleRequests
    /\ AssignPayload(IF data.nullish THEN EmptyPayload ELSE data)
    /\ loadingTodayGames' = LoadingAfter(request)
    /\ scheduleRequests' = scheduleRequests \ {request}
    /\ lastScheduleResult' = "ok"
    /\ UNCHANGED <<pc, todayGamesError, todayGamesIntervalId, homeLifecycle,
                   mountedHook, windowIntervals, rosterLoad, scheduleFetches,
                   routeVars, otherViews, viewVars>>

\* the fetch of a call of loadTodayGames rejects, is not ok, or its body
\* cannot be read: the catch block
ScheduleFails(request) ==
    /\ request \in scheduleRequests
    /\ todayGamesError' = LoadError
    /\ AssignPayload(EmptyPayload)
    /\ loadingTodayGames' = LoadingAfter(request)
    /\ scheduleRequests' = scheduleRequests \ {request}
    /\ lastScheduleResult' = "failed"
    /\ UNCHANGED <<pc, todayGamesIntervalId, homeLifecycle, mountedHook,
                   windowIntervals, rosterLoad, scheduleFetches, routeVars,
                   otherViews, viewVars>>

\* the league loadLeagueTeams is asking for
RosterLeague == Leagues[Cardinality(DOMAIN teamsResponses) + 1]

\* loadLeagueTeams receives the reply for one league; after the last league
\* the lookups are assigned and the links of the board are rendered anew
RosterReply(response) ==
    /\ pc = "home"
    /\ rosterLoad = "running"
    /\ teamsResponses' =
          [leagueId \in DOMAIN teamsResponses \cup {RosterLeague} |->
              IF leagueId = RosterLeague THEN response
              ELSE teamsResponses[leagueId]]
    /\ IF DOMAIN teamsResponses' = Range(Leagues)
       THEN /\ teamsByLeague' = LoadedLookups(teamsResponses')
            /\ rosterLoad' = "done"
            /\ linkLeagueId' = NoValue
            /\ linkTeamName' = NoValue
            /\ linkRoute' = NoValue
            /\ linkLabel' = NoValue
       ELSE UNCHANGED <<teamsByLeague, rosterLoad, linkVars, viewVars>>
    /\ UNCHANGED <<pc, loadingTodayGames, todayGamesError,
                   todayGamesIntervalId, homeLifecycle, mountedHook,
                   windowIntervals, scheduleRequests, scheduleFetches,
                   lastScheduleResult, scheduleVars, otherViews, viewVars>>

\* both initial loads have ended
InitialLoadsEnded ==
    /\ rosterLoad = "done"
    /\ \A request \in scheduleRequests : request.silent

\* onMounted after its await: window.setInterval
StartPolling ==
    /\ pc = "home"
    /\ mountedHook = "awaiting"
    /\ InitialLoadsEnded
    /\ mountedHook' = "done"
    /\ todayGamesIntervalId' = Num(1)
    /\ windowIntervals' = windowIntervals \cup {1}
    /\ UNCHANGED <<pc, loadingTodayGames, todayGamesError, homeLifecycle,
                   scheduleRequests, rosterLoad, scheduleFetches,
                   lastScheduleResult, scheduleVars, routeVars, otherViews,
                   viewVars>>

\* an interval of window fires: loadTodayGames({ silent: true }) up to its
\* fetch
PollTick(id) ==
    /\ pc = "home"
    /\ id \in windowIntervals
    /\ scheduleFetches < MaxScheduleFetches
    /\ scheduleFetches' = scheduleFetches + 1
    /\ scheduleRequests' =
          scheduleRequests \cup {ScheduleRequest(scheduleFetches + 1, TRUE)}
    /\ UNCHANGED <<pc, loadingTodayGames, todayGamesError,
                   todayGamesIntervalId, homeLifecycle, mountedHook,
                   windowIntervals, rosterLoad, lastScheduleResult,
                   scheduleVars, routeVars, otherViews, viewVars>>

\* onUnmounted
UnmountHome ==
    /\ pc = "home"
    /\ homeLifecycle = "mounted"
    /\ homeLifecycle' = "unmounted"
    /\ IF todayGamesIntervalId # Null
       THEN /\ windowIntervals' = windowIntervals \ {todayGamesIntervalId.n}
            /\ todayGamesIntervalId' = Null
       ELSE UNCHANGED <<windowIntervals, todayGamesIntervalId, viewVars>>
    /\ linkLeagueId' = NoValue
    /\ linkTeamName' = NoValue
    /\ linkRoute' = NoValue
    /\ linkLabel' = NoValue
    /\ UNCHANGED <<pc, loadingTodayGames, todayGamesError, mountedHook,
                   scheduleRequests, rosterLoad, scheduleFetches,
                   lastScheduleResult, scheduleVars, teamsResponses,
                   teamsByLeague, otherViews, viewVars>>

\* the mounted view renders one team link of the board
RenderHomeLink(leagueId, teamName) ==
    /\ pc = "home"
    /\ homeLifecycle = "mounted"
    /\ linkLeagueId' = leagueId
    /\ linkTeamName' = teamName
    /\ linkRoute' = teamRoute(leagueId, teamName)
    /\ linkLabel' = displayTeamName(teamName)
    /\ UNCHANGED <<pc, teamsResponses, teamsByLeague, scheduleVars, homeVars,
                   otherViews, viewVars>>

NextHome ==
    \/ MountHome
    \/ \E request \in scheduleRequests, data \in HomePayloads :
           ScheduleReply(request, data)
    \/ \E request \in scheduleRequests : ScheduleFails(request)
    \/ \E response \in HomeResponses : RosterReply(response)
    \/ StartPolling
    \/ \E id \in windowIntervals : PollTick(id)
    \/ UnmountHome
    \/ \E leagueId \in {Leagues[1], Leagues[2]}, teamName \in HomeTeamNames :
           RenderHomeLink(leagueId, teamName)

SpecHome == InitHome /\ [][NextHome]_vars

----------------------------------------------------------------------------
(* Team.vue: the loads of the view.                                        *)

\* the notices of loadGamePlayerStats and the message of a failed loadTeam
NoGameIdNotice ==
    "No game id available for selected game. Showing team-level stats."
NoBoxScoreNotice ==
    "No per-game player box score data for this game from current source. Showing team-level stats."
StatsFailedNotice ==
    "Unable to load per-game player stats. Showing team-level stats."
TeamLoadError == "API error: 500"

\* the team ids of the routes /teams/nba/{id}
ViewRoutes == {"okc", "bos"}

\* a player row of a response
PlayerRow(name, statKey) ==
    [present |-> TRUE, stats |-> Stats(<<statKey>>), name |-> name]

\* a game of a team response: an entry of the history with an id
GameWithId(game, id) ==
    [f \in DOMAIN game \cup {"id"} |-> IF f = "id" THEN id ELSE game[f]]

\* the body of /leagues/nba/teams/{id}
TeamOfRoute(id) ==
    IF id = "okc"
    THEN [loaded |-> TRUE, id |-> id,
          games |-> Arr(<<GameWithId(ExampleWin, Undefined),
                          GameWithId(ExampleLoss, Str(<<"g","1">>)),
                          GameWithId(Entry("scheduled", Date3, TRUE, Undefined),
                                     Str(<<"g","2">>))>>),
          players |-> Arr(<<PlayerRow("okc season", <<"p","o","i","n","t","s">>)>>)]
    ELSE [loaded |-> TRUE, id |-> id,
          games |-> Arr(<<GameWithId(ExampleTie, Undefined),
                          GameWithId(ExampleWin, Str(<<"g","3">>))>>),
          players |-> Arr(<<PlayerRow("bos season", <<"g","o","a","l","s">>)>>)]

\* the team before it is loaded: team.value = null
NoViewTeam == [loaded |-> FALSE, id |-> "", games |-> NotArray, players |-> NotArray]

\* the rows of /leagues/nba/teams/{id}/games/{game}/players
PerGameRows(id, game) ==
    <<[present |-> TRUE, stats |-> Stats(<<<<"a","s","s","i","s","t","s">>>>),
       name |-> id, game |-> game]>>

\* data.players of a box score response: missing, empty, or the rows
StatsBodies(id, game) == {NotArray, Arr(<<>>), Arr(PerGameRows(id, game))}

\* team.value?.players || []
SeasonRows(t) == IF t.loaded /\ t.players.arr THEN t.players.items ELSE <<>>

\* displayPlayers that shows the per-game collection also when it is empty
displayPlayersOfGameOnly(perGame, t) == perGame

\* the computed displayPlayers
displayPlayersOf(perGame, t) ==
    IF Len(perGame) > 0 THEN perGame ELSE SeasonRows(t)

\* !selectedGameId.value
NoGameId(id) == id.t # "string" \/ id.chars = <<>>

\* playedGames.value[0].id || ''
IdOrEmpty(id) == IF NoGameId(id) THEN Str(<<>>) ELSE id

\* the computed values the loads and the player table read, for a team and
\* a per-game collection; the records of the game list are left unevaluated
ViewComputed(t, perGame) ==
    /\ playedGames' = playedGamesOf(t)
    /\ UNCHANGED <<playedGamesWithRecord, teamRecord>>
    /\ displayPlayers' = displayPlayersOf(perGame, t)
    /\ playerStats' = playerStatsOf(displayPlayersOf(perGame, t))

TeamRequest(number, id) == [number |-> number, route |-> id]
StatsRequest(number, id, game, fromLoadTeam) ==
    [number |-> number, route |-> id, game |-> game,
     fromLoadTeam |-> fromLoadTeam]

homeAndOthers == <<statusVars, sortVars, scheduleVars, routeVars, menuVars,
                   homeVars>>

\* the view after setup: the watcher is immediate, so loadTeam has run up to
\* its fetch
InitView ==
    /\ pc = "view"
    /\ routeParams \in ViewRoutes
    /\ team = NoViewTeam
    /\ loading = TRUE
    /\ error = ""
    /\ selectedGameId = Str(<<>>)
    /\ gameStatsPlayers = <<>>
    /\ gameStatsLoading = FALSE
    /\ gameStatsMessage = ""
    /\ playedGames = <<>>
    /\ playedGamesWithRecord = <<>>
    /\ teamRecord = <<>>
    /\ displayPlayers = <<>>
    /\ playerStats = <<>>
    /\ teamRequests = {TeamRequest(0, routeParams)}
    /\ statsRequests = {}
    /\ viewEvents = 0
    /\ latestLoad = 0
    /\ lastStatsOutcome = "none"
    /\ statsSettled = 0
    /\ IdleStatus /\ IdleSort /\ IdleSchedule /\ IdleRoute /\ IdleMenu
    /\ IdleHome

\* the route parameters change: the watcher calls loadTeam, which runs up to
\* its fetch
ChangeRoute(id) ==
    /\ pc = "view"
    /\ id # routeParams
    /\ viewEvents < MaxViewEvents
    /\ viewEvents' = viewEvents + 1
    /\ routeParams' = id
    /\ loading' = TRUE
    /\ error' = ""
    /\ team' = NoViewTeam
    /\ selectedGameId' = Str(<<>>)
    /\ gameStatsPlayers' = <<>>
    /\ gameStatsMessage' = ""
    /\ ViewComputed(NoViewTeam, <<>>)
    /\ teamRequests' = teamRequests \cup {TeamRequest(viewEvents + 1, id)}
    /\ latestLoad' = viewEvents + 1
    /\ UNCHANGED <<pc, gameStatsLoading, statsRequests, lastStatsOutcome,
                   statsSettled, homeAndOthers>>

\* loadGamePlayerStats up to its return or its fetch, called for the game id
\* `id` while the team is `t`; `fromLoadTeam` tells whether loadTeam awaits
\* it, and `number` names the call
StartGamePlayerStats(t, id, number, fromLoadTeam) ==
    /\ gameStatsPlayers' = <<>>
    /\ ViewComputed(t, <<>>)
    /\ IF NoGameId(id)
       THEN /\ gameStatsMessage' = NoGameIdNotice
            /\ lastStatsOutcome' = "no id"
            /\ statsSettled' = statsSettled + 1
            /\ loading' = IF fromLoadTeam THEN FALSE ELSE loading
            /\ UNCHANGED <<gameStatsLoading, statsRequests>>
       ELSE /\ gameStatsLoading' = TRUE
            /\ gameStatsMessage' = ""
            /\ statsRequests' = statsRequests \cup
                  {StatsRequest(number, routeParams, id.chars, fromLoadTeam)}
            /\ UNCHANGED <<lastStatsOutcome, statsSettled, loading>>

\* a call of loadTeam receives the team: it selects the first played game
\* and calls loadGamePlayerStats, or ends when no game was played
TeamReply(request) ==
    /\ request \in teamRequests
    /\ teamRequests' = teamRequests \ {request}
    /\ team' = TeamOfRoute(request.route)
    /\ IF Len(playedGamesOf(TeamOfRoute(request.route))) > 0
       THEN /\ selectedGameId' =
                  IdOrEmpty(playedGamesOf(TeamOfRoute(request.route))[1].id)
            /\ StartGamePlayerStats(TeamOfRoute(request.route), selectedGameId',
                                    request.number, TRUE)
       ELSE /\ loading' = FALSE
            /\ ViewComputed(TeamOfRoute(request.route), gameStatsPlayers)
            /\ UNCHANGED <<selectedGameId, gameStatsPlayers, gameStatsLoading,
                           gameStatsMessage, statsRequests, lastStatsOutcome,
                           statsSettled>>
    /\ UNCHANGED <<pc, routeParams, error, viewEvents, latestLoad,
                   homeAndOthers>>

\* the fetch of a call of loadTeam rejects or is not ok: the catch block and
\* the finally block
TeamFails(request) ==
    /\ request \in teamRequests
    /\ teamRequests' = teamRequests \ {request}
    /\ error' = TeamLoadError
    /\ loading' = FALSE
    /\ UNCHANGED <<pc, routeParams, selectedGameId, gameStatsPlayers,
                   gameStatsLoading, gameStatsMessage, statsRequests,
                   viewEvents, latestLoad, lastStatsOutcome, statsSettled,
                   teamVars, statsVars, homeAndOthers>>

\* the user picks a game of the select: v-model assigns its id and the
\* change event calls loadGamePlayerStats
SelectGame(k) ==
    /\ pc = "view"
    /\ team.loaded
    /\ k \in DOMAIN playedGames
    /\ playedGames[k].id # selectedGameId
    /\ viewEvents < MaxViewEvents
    /\ viewEvents' = viewEvents + 1
    /\ selectedGameId' = playedGames[k].id
    /\ StartGamePlayerStats(team, playedGames[k].id, viewEvents + 1, FALSE)
    /\ UNCHANGED <<pc, routeParams, error, team, teamRequests, latestLoad,
                   homeAndOthers>>

\* the end of a call of loadGamePlayerStats that awaited a reply: its
\* finally block, and the finally block of the loadTeam that awaited it
EndGamePlayerStats(request, players, notice, outcome) ==
    /\ request \in statsRequests
    /\ statsRequests' = statsRequests \ {request}
    /\ gameStatsPlayers' = players
    /\ gameStatsMessage' = notice
    /\ gameStatsLoading' = FALSE
    /\ loading' = IF request.fromLoadTeam THEN FALSE ELSE loading
    /\ lastStatsOutcome' = outcome
    /\ statsSettled' = statsSettled + 1
    /\ ViewComputed(team, players)
    /\ UNCHANGED <<pc, routeParams, error, selectedGameId, team, teamRequests,
                   viewEvents, latestLoad, homeAndOthers>>

\* a call of loadGamePlayerStats receives the box score
StatsReply(request, players) ==
    IF TeamsOrEmpty(players) = <<>>
    THEN EndGamePlayerStats(request, <<>>, NoBoxScoreNotice, "no players")
    ELSE EndGamePlayerStats(request, players.items, gameStatsMessage, "players")

\* the fetch of a call of loadGamePlayerStats rejects or is not ok
StatsFails(request) ==
    EndGamePlayerStats(request, <<>>, StatsFailedNotice, "failed")

NextView ==
    \/ \E id \in ViewRoutes : ChangeRoute(id)
    \/ \E request \in teamRequests : TeamReply(request)
    \/ \E request \in teamRequests : TeamFails(request)
    \/ \E k \in 1..MaxHistory : SelectGame(k)
    \/ \E request \in statsRequests :
           \E players \in StatsBodies(request.route, request.game) :
               StatsReply(request, players)
    \/ \E request \in statsRequests : StatsFails(request)

SpecView == InitView /\ [][NextView]_vars

----------------------------------------------------------------------------
(* The sorter, the aggregator and the reconstructor side by side: each     *)
(* behaviour is a behaviour of one of the three.                           *)

InitFrame == InitSort \/ InitSchedule \/ InitTeam

NextFrame == NextSort \/ NextSchedule \/ NextTeam

SpecFrame == InitFrame /\ [][NextFrame]_vars

----------------------------------------------------------------------------
(* Claims about the status classifier (checked under SpecStatus).          *)

\* the lower-cased text the classifier reads
StatusText == ToLowerCase(StringOrEmpty(status))

HasFinalKeyword ==
    \E kw \in {Final, Complete, Completed} : Includes(StatusText, kw)

HasLiveKeyword ==
    \E kw \in {InProgress, Live, Qtr, Quarter, Period, Inning} :
        Includes(StatusText, kw)

\* the class a label stands for
ClassOfLabel(l) ==
    IF l = LabelComplete THEN "final"
    ELSE IF l = LabelScheduled THEN "scheduled"
    ELSE "live"

Labelled == pc \in {"labelled", "ranked"}

\* C1: every status whose lower-cased text contains "final", "complete" or
\* "completed" is classified final and labelled "Complete", whatever live
\* keywords it also contains.
C1_FinalKeywordIsComplete ==
    (Labelled /\ HasFinalKeyword) => stateLabel = LabelComplete

\* C1 witness: a labelled status that holds "final" and the live keyword
\* "period" and is labelled "Complete".
C1_Witness ==
    /\ Labelled
    /\ Includes(StatusText, Final)
    /\ Includes(StatusText, Period)
    /\ stateLabel = LabelComplete

\* C2: the sorter's rank agrees with the classifier's class: rank 0 exactly
\* for live, 1 exactly for scheduled, 2 exactly for final; in particular a
\* game labelled "Complete" has rank 2.
C2_RankAgreesWithClass ==
    pc = "ranked" =>
        /\ displayRank = 0 <=> ClassOfLabel(stateLabel) = "live"
        /\ displayRank = 1 <=> ClassOfLabel(stateLabel) = "scheduled"
        /\ displayRank = 2 <=> ClassOfLabel(stateLabel) = "final"

\* C3: without a final keyword a status is live exactly when it holds one of
\* the six live keywords and scheduled otherwise; an absent, null, empty or
\* non-string status is scheduled, and every input gets a label.
C3_LiveIffLiveKeyword ==
    /\ (Labelled /\ ~HasFinalKeyword) =>
          /\ ClassOfLabel(stateLabel) = "live" <=> HasLiveKeyword
          /\ ~HasLiveKeyword => stateLabel = LabelScheduled
    /\ (Labelled /\ (status.t # "string" \/ status.chars = <<>>)) =>
          stateLabel = LabelScheduled
    /\ Labelled => stateLabel # NoLabel

\* C3 witness: a labelled status with the keyword "inning" and no final
\* keyword, classified live.
C3_Witness ==
    /\ Labelled
    /\ ~HasFinalKeyword
    /\ Includes(StatusText, Inning)
    /\ ClassOfLabel(stateLabel) = "live"

\* C3 second case reached: a null status labelled "Scheduled".
C3_WitnessAbsent == Labelled /\ status = Null /\ stateLabel = LabelScheduled

\* the raw text of the status
RawText == StringOrEmpty(status)

\* a number directly followed by whitespace and the word "quarter" at i
BareNumberQuarterAt(s, i) ==
    /\ WordBoundary(s, i)
    /\ DigitRun(s, i) >= 1
    /\ SpaceRun(s, i + DigitRun(s, i)) >= 1
    /\ QuarterWordAt(s, i + DigitRun(s, i) + SpaceRun(s, i + DigitRun(s, i)))

\* a number with an ordinal suffix followed by whitespace and the word
\* "quarter" at i
OrdinalQuarterAt(s, i) ==
    /\ WordBoundary(s, i)
    /\ DigitRun(s, i) >= 1
    /\ i + DigitRun(s, i) + 1 <= Len(s)
    /\ ToLowerCase(SubSeq(s, i + DigitRun(s, i), i + DigitRun(s, i) + 1))
          \in OrdinalSuffixes
    /\ SpaceRun(s, i + DigitRun(s, i) + 2) >= 1
    /\ QuarterWordAt(s, i + DigitRun(s, i) + 2
                          + SpaceRun(s, i + DigitRun(s, i) + 2))

\* "Q" followed by the number that starts at i
QNumber(s, i) == <<"Q">> \o SubSeq(s, i, i + DigitRun(s, i) - 1)

LiveLabelled == Labelled /\ ClassOfLabel(stateLabel) = "live"

\* C4 as stated: in a live game's label every "<N> quarter" (a number, then
\* whitespace, then the word quarter) has become "Q<N>".
C4_AnyNumberQuarterBecomesQN ==
    LiveLabelled =>
        \A i \in 1..Len(RawText) :
            BareNumberQuarterAt(RawText, i) =>
                Includes(stateLabel, QNumber(RawText, i))

\* C4 amended: "Complete" for final, "Scheduled" for scheduled; a live label
\* is never empty, is trimmed with single spaces only, holds no standalone
\* word "quarter", holds "Q<N>" for every ordinal "<N>st|nd|rd|th quarter" of
\* the raw text, and is the raw text itself (case kept) when that has neither
\* whitespace nor "quarter"; a bare "<N> quarter" only has its word replaced.
C4_LabelShape ==
    /\ (Labelled /\ HasFinalKeyword) => stateLabel = LabelComplete
    /\ (Labelled /\ ~HasFinalKeyword /\ ~HasLiveKeyword) =>
          stateLabel = LabelScheduled
    /\ Labelled => stateLabel # <<>>
    /\ LiveLabelled =>
          /\ ~IsSpace(stateLabel[1]) /\ ~IsSpace(stateLabel[Len(stateLabel)])
          /\ \A i \in 1..Len(stateLabel) :
                IsSpace(stateLabel[i]) =>
                    stateLabel[i] = " " /\ ~IsSpace(stateLabel[i + 1])
          /\ \A i \in 1..Len(stateLabel) : ~QuarterWordAt(stateLabel, i)
          /\ \A i \in 1..Len(RawText) :
                OrdinalQuarterAt(RawText, i) =>
                    Includes(stateLabel, QNumber(RawText, i))
          /\ ((\A i \in 1..Len(RawText) : ~IsSpace(RawText[i]))
                /\ ~Includes(StatusText, Quarter)) => stateLabel = RawText
          /\ RawText = <<"4", " ", "q","u","a","r","t","e","r">> =>
                stateLabel = <<"4", " ", "Q">>

\* C4 witness: the live status "4th Quarter" labelled "Q4".
C4_Witness ==
    /\ Labelled
    /\ RawText = <<"4","t","h"," ","Q","u","a","r","t","e","r">>
    /\ stateLabel = <<"Q","4">>

----------------------------------------------------------------------------
(* Claims about the display sorter and the score column (SpecSort).        *)

Sorted == pc \in {"sorted", "rendered"}

RankOf(g) == gameDisplayRank(g.status)

\* the games of rank r, in the order they have in gs
GamesOfRank(gs, r) ==
    LET HasRank(g) == RankOf(g) = r
    IN  SelectSeq(gs, HasRank)

\* the number of times g occurs in gs
Occurrences(gs, g) == Cardinality({i \in DOMAIN gs : gs[i] = g})

\* C5: sortGamesForDisplay keeps the relative input order of any two games
\* of the same rank: for each rank, the games of that rank come out in the
\* order they came in.
C5_StableWithinRank ==
    (Sorted /\ games.arr) =>
        \A r \in 0..2 : GamesOfRank(sortedGames, r) = GamesOfRank(games.items, r)

\* C5 witness: two different games of one rank, followed in the input by a
\* game of a smaller rank; the sort moved that game in front of them and
\* they kept their order.
C5_Witness ==
    /\ Sorted /\ games.arr /\ Len(games.items) = 3
    /\ games.items[1] # games.items[2]
    /\ RankOf(games.items[1]) = RankOf(games.items[2])
    /\ RankOf(games.items[3]) < RankOf(games.items[1])
    /\ sortedGames = <<games.items[3], games.items[1], games.items[2]>>

\* C6: the output is a permutation of the input (same length, every game
\* with the same multiplicity) with non-decreasing ranks: rank 0 (live)
\* first, then rank 1 (scheduled), then rank 2 (final); a non-array input
\* gives the empty sequence.
C6_SortedPermutation ==
    /\ (Sorted /\ games.arr) =>
          /\ Len(sortedGames) = Len(games.items)
          /\ \A g \in SampleGames :
                Occurrences(sortedGames, g) = Occurrences(games.items, g)
          /\ \A i, j \in DOMAIN sortedGames :
                i < j => RankOf(sortedGames[i]) <= RankOf(sortedGames[j])
    /\ (Sorted /\ ~games.arr) => sortedGames = <<>>

\* C6 witness: an input in descending rank order (final, scheduled, live)
\* comes out in ascending rank order.
C6_Witness ==
    /\ Sorted /\ games.arr /\ Len(games.items) = 3
    /\ <<RankOf(games.items[1]), RankOf(games.items[2]), RankOf(games.items[3])>>
          = <<2, 1, 0>>
    /\ <<RankOf(sortedGames[1]), RankOf(sortedGames[2]), RankOf(sortedGames[3])>>
          = <<0, 1, 2>>

\* the score field of one side of a game
ScoreField(g, side) == IF side = "away" THEN g.away_score ELSE g.home_score

\* s is r with whitespace (only) added in front and behind, and r itself
\* neither starts nor ends with whitespace
IsTrimOf(r, s) ==
    /\ r # <<>> => ~IsSpace(r[1]) /\ ~IsSpace(r[Len(r)])
    /\ \E a \in 0..Len(s) :
          /\ a + Len(r) <= Len(s)
          /\ SubSeq(s, a + 1, a + Len(r)) = r
          /\ \A k \in 1..Len(s) : (k <= a \/ k > a + Len(r)) => IsSpace(s[k])

\* C9: a game classified scheduled shows the empty string on both sides
\* whatever its score fields; a live or final game shows that side's score
\* as a trimmed string, empty when the score is absent.
C9_ScoreShownUnlessScheduled ==
    pc = "rendered" =>
        \A i \in DOMAIN sortedGames : \A side \in {"away", "home"} :
            LET g == sortedGames[i]
                shown == teamScores[i][side]
                field == ScoreField(g, side)
            IN  IF ClassOfLabel(gameStateLabel(g.status)) = "scheduled"
                THEN shown = <<>>
                ELSE CASE field.t \in {"undefined", "null"} -> shown = <<>>
                       [] field.t = "number" -> shown = IntToString(field.n)
                       [] OTHER -> IsTrimOf(shown, field.chars)

\* C9 witness: a rendered list with a scheduled game that carries scores and
\* shows none, and a final game that shows "3" and "107".
C9_Witness ==
    /\ pc = "rendered"
    /\ \E i, j \in DOMAIN sortedGames :
          /\ ClassOfLabel(gameStateLabel(sortedGames[i].status)) = "scheduled"
          /\ sortedGames[i].away_score = Num(3)
          /\ teamScores[i] = [away |-> <<>>, home |-> <<>>]
          /\ ClassOfLabel(gameStateLabel(sortedGames[j].status)) = "final"
          /\ teamScores[j] = [away |-> <<"3">>, home |-> <<"1","0","7">>]

----------------------------------------------------------------------------
(* Claims about the schedule aggregator (SpecSchedule).                    *)

\* some league of the bucket has a games array with a game in it
SomeGameIn(bucket) ==
    \E i \in DOMAIN bucket : bucket[i].games.arr /\ bucket[i].games.items # <<>>

\* C7: the "no games today" notice is on exactly when no today league has a
\* game and some yesterday league has one; it is off when both buckets are
\* empty, and a games field that is no array counts as no games.
C7_NoticeIffTodayEmptyAndYesterdayNot ==
    pc = "shown" =>
        /\ todayEmptyNotice <=> (~SomeGameIn(todayLeagues) /\ SomeGameIn(yesterdayLeagues))
        /\ (todayLeagues = <<>> /\ yesterdayLeagues = <<>>) => ~todayEmptyNotice

\* C7 witness: the today bucket holds only a league whose games field is no
\* array, the yesterday bucket holds games, and the notice is on.
C7_Witness ==
    /\ pc = "shown"
    /\ todayLeagues # <<>>
    /\ \A i \in DOMAIN todayLeagues : ~todayLeagues[i].games.arr
    /\ SomeGameIn(yesterdayLeagues)
    /\ todayEmptyNotice

\* C8: the today bucket is today.leagues whenever that is an array, even an
\* empty one; otherwise the top-level leagues when that is an array;
\* otherwise empty.  The yesterday bucket is yesterday.leagues when that is
\* an array and empty otherwise, never the top-level leagues.
C8_BucketSources ==
    pc = "shown" =>
        LET p == todayGamesPayload
            hasToday == p.today.present /\ p.today.leagues.arr
            hasYesterday == p.yesterday.present /\ p.yesterday.leagues.arr
        IN  /\ hasToday => todayLeagues = p.today.leagues.items
            /\ (~hasToday /\ p.leagues.arr) => todayLeagues = p.leagues.items
            /\ (~hasToday /\ ~p.leagues.arr) => todayLeagues = <<>>
            /\ hasYesterday => yesterdayLeagues = p.yesterday.leagues.items
            /\ ~hasYesterday => yesterdayLeagues = <<>>

\* C8 witness: today.leagues is an empty array and the top-level leagues
\* are not empty: the today bucket is empty, and so is the yesterday bucket
\* of a payload without a yesterday section.
C8_Witness ==
    /\ pc = "shown"
    /\ todayGamesPayload.today = Section(Arr(<<>>))
    /\ todayGamesPayload.leagues.arr /\ todayGamesPayload.leagues.items # <<>>
    /\ ~todayGamesPayload.yesterday.present
    /\ todayLeagues = <<>>
    /\ yesterdayLeagues = <<>>

----------------------------------------------------------------------------
(* Claims about the record reconstructor (SpecTeam).                       *)

\* the number of "-" in a record string: 1 in "W-L", 2 in "W-L-T"
DashCount(s) == Cardinality({k \in DOMAIN s : s[k] = "-"})

\* a game whose score parses to two equal numbers
IsTie(g) ==
    /\ ~ScorePair(g).homeRaw.nan
    /\ ~ScorePair(g).awayRaw.nan
    /\ ScorePair(g).homeRaw.v = ScorePair(g).awayRaw.v

\* the history is the worked example's three games, in any order
IsExampleHistory ==
    /\ team.loaded /\ team.games.arr
    /\ Len(team.games.items) = 3
    /\ {team.games.items[k] : k \in 1..3} = {ExampleWin, ExampleLoss, ExampleTie}

\* C10: ties are tracked: from the first tied game on the record string is
\* "W-L-T", and for the home games 10-5, 3-7, 8-8 (oldest first) the records
\* are "1-0", "1-1", "1-1-1", the most recent first in the output.
C10_TiesTracked ==
    pc = "records" =>
        /\ \A i \in DOMAIN playedGamesWithRecord :
              IsTie(playedGamesWithRecord[i]) =>
                  DashCount(playedGamesWithRecord[i].recordAfter) = 2
        /\ IsExampleHistory =>
              [i \in 1..3 |-> playedGamesWithRecord[i].recordAfter]
                  = << <<"1","-","1","-","1">>, <<"1","-","1">>, <<"1","-","0">> >>

\* what the reconstructor does with the worked example: the tied game
\* leaves wins and losses alone and its record is "1-1"
C10_ExampleAsComputed ==
    /\ pc = "records"
    /\ IsExampleHistory
    /\ [i \in 1..3 |-> playedGamesWithRecord[i].recordAfter]
          = << <<"1","-","1">>, <<"1","-","1">>, <<"1","-","0">> >>
    /\ teamRecord = <<"1","-","1">>

\* the reconstruction has been computed
Reconstructed == pc = "records"

\* the annotated games, oldest first (the order the counters ran in)
Chronological == Reverse(playedGamesWithRecord)

\* both sides of the game's score string parse as integers
Parseable(g) == ~ScorePair(g).homeRaw.nan /\ ~ScorePair(g).awayRaw.nan

\* the team's own score and the opponent's, by the home flag
OwnScore(g) == IF g.home THEN ScorePair(g).homeRaw.v ELSE ScorePair(g).awayRaw.v
OpponentScore(g) == IF g.home THEN ScorePair(g).awayRaw.v ELSE ScorePair(g).homeRaw.v

\* the counters written in a record string "W-L" or "W-L-T"
RecordParts(rec) ==
    LET pieces == SplitDash(rec)
    IN  [k \in DOMAIN pieces |-> ParseInt(pieces[k]).v]

\* the k-th counter of a record, 0 when the record does not show it
Part(parts, k) == IF k <= Len(parts) THEN parts[k] ELSE 0

TotalOf(parts) == Part(parts, 1) + Part(parts, 2) + Part(parts, 3)

\* the counters before the i-th game of chron: those of the latest earlier
\* game that has a record, 0-0 when there is none
RecordBefore(chron, i) ==
    LET earlier == {j \in 1..(i - 1) : chron[j].recordAfter # <<>>}
    IN  IF earlier = {} THEN <<0, 0>>
        ELSE RecordParts(chron[CHOOSE j \in earlier :
                                   \A m \in earlier : m <= j].recordAfter)

\* C11: the team's own score is the first number of "H-A" for a home game
\* and the second otherwise; a game the team won raises wins by exactly one
\* and leaves losses alone, a game it lost raises losses by exactly one and
\* leaves wins alone.
C11_OwnScoreDecidesWinOrLoss ==
    Reconstructed =>
        \A i \in DOMAIN Chronological :
            LET g == Chronological[i]
                before == RecordBefore(Chronological, i)
                after == RecordParts(g.recordAfter)
            IN  Parseable(g) =>
                    /\ g.recordAfter # <<>>
                    /\ OwnScore(g) > OpponentScore(g) =>
                          /\ Part(after, 1) = Part(before, 1) + 1
                          /\ Part(after, 2) = Part(before, 2)
                    /\ OwnScore(g) < OpponentScore(g) =>
                          /\ Part(after, 2) = Part(before, 2) + 1
                          /\ Part(after, 1) = Part(before, 1)

\* an away game won on the second number and a home game lost on the first,
\* both annotated in one reconstruction
C11_Witness ==
    /\ Reconstructed
    /\ \E i, j \in DOMAIN Chronological :
          /\ i < j
          /\ ~Chronological[i].home /\ Parseable(Chronological[i])
          /\ ScorePair(Chronological[i]).awayRaw.v > ScorePair(Chronological[i]).homeRaw.v
          /\ Chronological[i].recordAfter = <<"1","-","0">>
          /\ Chronological[j].home /\ Parseable(Chronological[j])
          /\ ScorePair(Chronological[j]).homeRaw.v < ScorePair(Chronological[j]).awayRaw.v
          /\ Chronological[j].recordAfter = <<"1","-","1">>

\* C12: a game whose score does not parse changes no counter and has the
\* empty recordAfter, and every game with a parseable score has a recordAfter
\* that counts exactly the parseable games up to and including it.
C12_UnparseableSkippedOthersCounted ==
    Reconstructed =>
        \A i \in DOMAIN Chronological :
            LET g == Chronological[i]
            IN  IF Parseable(g)
                THEN /\ g.recordAfter # <<>>
                     /\ TotalOf(RecordParts(g.recordAfter))
                           = Cardinality({j \in 1..i : Parseable(Chronological[j])})
                ELSE g.recordAfter = <<>>

\* C13: the counters only increase: along the chronological order the
\* records are component-wise non-decreasing, and each game with a parseable
\* score raises exactly one counter by exactly one.
C13_CountersMonotonic ==
    Reconstructed =>
        \A i \in DOMAIN Chronological :
            LET g == Chronological[i]
                before == RecordBefore(Chronological, i)
                after == RecordParts(g.recordAfter)
            IN  Parseable(g) =>
                    /\ g.recordAfter # <<>>
                    /\ \A k \in 1..3 : Part(after, k) >= Part(before, k)
                    /\ TotalOf(after) = TotalOf(before) + 1

\* the parsed date of a history entry
DateOf(g) == DateParse(StringOrEmpty(g.date))

PlayedComputed == pc \in {"played", "records"}

\* C14: playedGames holds exactly the entries whose status is "played",
\* in descending order of parsed date, and every entry whose date is missing
\* or does not parse comes after every entry with a parseable date.
C14_PlayedSortedUnparseableLast ==
    (PlayedComputed /\ team.loaded /\ team.games.arr) =>
        /\ \A g \in Range(team.games.items) \cup Range(playedGames) :
              Occurrences(playedGames, g)
                  = IF g.status = "played"
                    THEN Occurrences(team.games.items, g) ELSE 0
        /\ \A i, j \in DOMAIN playedGames :
              (i < j /\ ~DateOf(playedGames[i]).nan /\ ~DateOf(playedGames[j]).nan)
                  => DateOf(playedGames[i]).v >= DateOf(playedGames[j]).v
        /\ \A i, j \in DOMAIN playedGames :
              (DateOf(playedGames[i]).nan /\ ~DateOf(playedGames[j]).nan) => j < i

\* C15 as stated: teamRecord is the recordAfter of the first entry of the
\* most-recent-first output, and it is empty only when no played game has a
\* parseable score.
C15_RecordEmptyOnlyWithoutScores ==
    Reconstructed =>
        /\ teamRecord = IF playedGamesWithRecord = <<>> THEN <<>>
                        ELSE playedGamesWithRecord[1].recordAfter
        /\ teamRecord = <<>> =>
              \A i \in DOMAIN playedGames : ~Parseable(playedGames[i])

\* C15: teamRecord is the recordAfter of the first entry of the
\* most-recent-first output; it is empty exactly when there is no played
\* game or the score of that first (most recent) game does not parse,
\* whatever the scores of the older games.
C15_RecordOfMostRecentGame ==
    Reconstructed =>
        /\ teamRecord = IF playedGamesWithRecord = <<>> THEN <<>>
                        ELSE playedGamesWithRecord[1].recordAfter
        /\ teamRecord = <<>> <=>
              (playedGames = <<>> \/ ~Parseable(playedGames[1]))

\* the most recent game (by a parseable date) has no parseable score while
\* an older one has: the team's record is empty
C15_Witness ==
    /\ Reconstructed
    /\ Len(playedGames) >= 2
    /\ ~DateOf(playedGames[1]).nan /\ ~DateOf(playedGames[2]).nan
    /\ DateOf(playedGames[1]).v > DateOf(playedGames[2]).v
    /\ ~Parseable(playedGames[1])
    /\ Parseable(playedGames[2])
    /\ playedGamesWithRecord[2].recordAfter # <<>>
    /\ teamRecord = <<>>

\* the key playedGames sorts by
DateKey(g) == FiniteOrZero(DateOf(g))

\* the arrangements of out in ascending date order
AscendingOrders(out) ==
    LET n == Len(out)
        perms == {f \in [1..n -> 1..n] : \A a, b \in 1..n : f[a] = f[b] => a = b}
    IN  { [k \in 1..n |-> out[f[k]]] : f \in
            {f \in perms : \A k \in 1..(n - 1) :
                               DateKey(out[f[k]]) <= DateKey(out[f[k + 1]])} }

\* the reconstructor run on a games array
Rerun(input) == playedGamesWithRecordOf(playedGamesOf(Team(Arr(input))))

\* C16: running the reconstructor again on its own output, re-sorted to
\* ascending date order, gives every game the recordAfter it had.
C16_RerunReproducesRecords ==
    Reconstructed =>
        \A asc \in AscendingOrders(playedGamesWithRecord) :
            \A x \in Range(playedGamesWithRecord) \cup Range(Rerun(asc)) :
                Occurrences(Rerun(asc), x) = Occurrences(playedGamesWithRecord, x)

----------------------------------------------------------------------------
(* Claims about the roster resolver (SpecRoute).                           *)

LinkRendered == pc = "link"

\* loadLeagueTeams has assigned the lookups
RostersLoaded == DOMAIN teamsByLeague = Range(Leagues)

\* the roster listing received for a league, empty when there is none
RosterOf(leagueId) ==
    IF /\ leagueId \in Range(Leagues)
       /\ teamsResponses[leagueId].ok
       /\ teamsResponses[leagueId].teams.arr
    THEN teamsResponses[leagueId].teams.items
    ELSE <<>>

\* a name lower-cased and trimmed; an identifier trimmed
NameKey(v) == Trim(ToLowerCase(StringOrEmpty(v)))
IdText(v) == Trim(StringOrEmpty(v))

\* a roster entry with a non-empty name and a non-empty identifier
Listed(entry) == NameKey(entry.name) # <<>> /\ IdText(entry.id) # <<>>

RoutePath(leagueId, id) == RoutePrefix \o leagueId \o <<"/">> \o id

\* the team segment of the rendered route
LinkId ==
    SubSeq(linkRoute, Len(RoutePrefix) + Len(linkLeagueId) + 2, Len(linkRoute))

\* the lookup of the link's league has no entry for the link's name
Unmapped ==
    ~(/\ linkLeagueId \in DOMAIN teamsByLeague
      /\ NameKey(linkTeamName) \in DOMAIN teamsByLeague[linkLeagueId])

\* every league's lookup holds exactly the names of the listed entries of
\* that league's own roster, each with the identifier of such an entry
LookupsOfOwnRoster ==
    \A leagueId \in Range(Leagues) :
        LET roster == RosterOf(leagueId)
            listed == {k \in DOMAIN roster : Listed(roster[k])}
        IN  /\ DOMAIN teamsByLeague[leagueId]
                  = {NameKey(roster[k].name) : k \in listed}
            /\ \A key \in DOMAIN teamsByLeague[leagueId] :
                  \E k \in listed :
                      /\ NameKey(roster[k].name) = key
                      /\ IdText(roster[k].id) = teamsByLeague[leagueId][key]

\* a name none of the listed entries of the link's own league has resolves
\* to the fallback, whatever the other leagues list
OtherLeaguesIgnored ==
    LET roster == RosterOf(linkLeagueId)
    IN  (\A k \in DOMAIN roster :
            Listed(roster[k]) => NameKey(roster[k].name) # NameKey(linkTeamName))
        => linkRoute = RoutePath(linkLeagueId, slugify(linkTeamName))

\* C17 as stated: a name equal, lower-cased and trimmed, to the name of any
\* listed entry of the league's roster resolves to that entry's identifier;
\* unlisted entries are not in the lookup; no other league's lookup is used.
C17_EveryListedEntryResolves ==
    (LinkRendered /\ RostersLoaded) =>
        /\ \A k \in DOMAIN RosterOf(linkLeagueId) :
              LET entry == RosterOf(linkLeagueId)[k]
              IN  (Listed(entry) /\ NameKey(linkTeamName) = NameKey(entry.name))
                      => linkRoute = RoutePath(linkLeagueId, IdText(entry.id))
        /\ LookupsOfOwnRoster
        /\ OtherLeaguesIgnored

\* C17: a name equal, lower-cased and trimmed, to the name of a listed
\* entry of the league's roster resolves to the trimmed identifier of the
\* last listed entry with that name; unlisted entries are not in the
\* lookup; no other league's lookup is used.
C17_LastListedEntryResolves ==
    (LinkRendered /\ RostersLoaded) =>
        /\ \A k \in DOMAIN RosterOf(linkLeagueId) :
              LET roster == RosterOf(linkLeagueId)
                  entry == roster[k]
                  last == \A m \in DOMAIN roster :
                              (m > k /\ Listed(roster[m]))
                                  => NameKey(roster[m].name) # NameKey(entry.name)
              IN  (Listed(entry) /\ last
                       /\ NameKey(linkTeamName) = NameKey(entry.name))
                      => linkRoute = RoutePath(linkLeagueId, IdText(entry.id))
        /\ LookupsOfOwnRoster
        /\ OtherLeaguesIgnored

\* a name written otherwise than in the roster resolves to the identifier of
\* the second of two entries that share the normalized name
C17_Witness ==
    /\ LinkRendered /\ RostersLoaded
    /\ Len(RosterOf(linkLeagueId)) = 2
    /\ Listed(RosterOf(linkLeagueId)[1]) /\ Listed(RosterOf(linkLeagueId)[2])
    /\ NameKey(RosterOf(linkLeagueId)[1].name) = NameKey(linkTeamName)
    /\ NameKey(RosterOf(linkLeagueId)[2].name) = NameKey(linkTeamName)
    /\ RosterOf(linkLeagueId)[1].name # linkTeamName
    /\ RosterOf(linkLeagueId)[2].name # linkTeamName
    /\ IdText(RosterOf(linkLeagueId)[1].id) # IdText(RosterOf(linkLeagueId)[2].id)
    /\ linkRoute = RoutePath(linkLeagueId, IdText(RosterOf(linkLeagueId)[2].id))

\* the maximal runs of characters of [a-z0-9] in s, in order
RECURSIVE SlugRuns(_, _)
SlugRuns(s, run) ==
    IF s = <<>> THEN (IF run = <<>> THEN <<>> ELSE <<run>>)
    ELSE IF IsSlugChar(Head(s)) THEN SlugRuns(Tail(s), run \o <<Head(s)>>)
    ELSE (IF run = <<>> THEN <<>> ELSE <<run>>) \o SlugRuns(Tail(s), <<>>)

\* the runs joined by single hyphens
RECURSIVE JoinHyphen(_)
JoinHyphen(runs) ==
    IF runs = <<>> THEN <<>>
    ELSE IF Len(runs) = 1 THEN runs[1]
    ELSE runs[1] \o <<"-">> \o JoinHyphen(Tail(runs))

\* C18: a name without a lookup entry gets the fallback identifier: the
\* name lower-cased, each run of non-alphanumeric characters replaced by one
\* hyphen, no hyphen at either end; it holds only a-z, 0-9 and single
\* interior hyphens, and "Oklahoma City Thunder" gives
\* "oklahoma-city-thunder".
C18_FallbackIsSlug ==
    (LinkRendered /\ Unmapped) =>
        /\ linkRoute = RoutePath(linkLeagueId,
              JoinHyphen(SlugRuns(ToLowerCase(StringOrEmpty(linkTeamName)), <<>>)))
        /\ \A k \in DOMAIN LinkId : IsSlugChar(LinkId[k]) \/ LinkId[k] = "-"
        /\ LinkId # <<>> => (LinkId[1] # "-" /\ LinkId[Len(LinkId)] # "-")
        /\ \A k \in 1..(Len(LinkId) - 1) : ~(LinkId[k] = "-" /\ LinkId[k + 1] = "-")
        /\ linkTeamName = Str(<<"O","k","l","a","h","o","m","a"," ","C","i","t","y"," ","T","h","u","n","d","e","r">>) =>
              LinkId = <<"o","k","l","a","h","o","m","a","-","c","i","t","y","-","t","h","u","n","d","e","r">>

\* the rosters are loaded, the link's league lists other teams only, and a
\* name in capitals with surrounding blanks gets its slug
C18_Witness ==
    /\ LinkRendered /\ RostersLoaded /\ Unmapped
    /\ linkLeagueId = <<"n","b","a">>
    /\ DOMAIN teamsByLeague[linkLeagueId] # {}
    /\ linkTeamName = Str(<<" "," ","O","K","L","A","H","O","M","A"," ","C","I","T","Y"," ","T","H","U","N","D","E","R"," ">>)
    /\ linkRoute = <<"/","t","e","a","m","s","/","n","b","a","/","o","k","l","a","h","o","m","a","-","c","i","t","y","-","t","h","u","n","d","e","r">>

\* C19: a non-empty name without a lookup entry never gets the empty
\* fallback identifier.
C19_FallbackNeverEmpty ==
    (LinkRendered /\ Unmapped /\ StringOrEmpty(linkTeamName) # <<>>)
        => LinkId # <<>>

\* C20: the label is "OKC Thunder" for "oklahoma city thunder" and "OKC" for
\* "oklahoma city" (compared lower-cased and trimmed) and the name itself
\* otherwise; the route's lookup key and fallback come from the raw name.
C20_AliasOnlyInLabel ==
    LinkRendered =>
        /\ linkLabel =
              CASE NameKey(linkTeamName) = <<"o","k","l","a","h","o","m","a"," ","c","i","t","y"," ","t","h","u","n","d","e","r">>
                     -> Str(<<"O","K","C"," ","T","h","u","n","d","e","r">>)
                [] NameKey(linkTeamName) = <<"o","k","l","a","h","o","m","a"," ","c","i","t","y">>
                     -> Str(<<"O","K","C">>)
                [] OTHER -> linkTeamName
        /\ LinkId = IF Unmapped THEN slugify(linkTeamName)
                    ELSE teamsByLeague[linkLeagueId][NameKey(linkTeamName)]

\* the league lists "OKC Thunder" but not "Oklahoma City Thunder": the label
\* is the alias and the route is the slug of the raw name
C20_Witness ==
    /\ LinkRendered /\ RostersLoaded
    /\ linkTeamName = Str(<<"O","k","l","a","h","o","m","a"," ","C","i","t","y"," ","T","h","u","n","d","e","r">>)
    /\ linkLabel = Str(<<"O","K","C"," ","T","h","u","n","d","e","r">>)
    /\ linkLeagueId \in DOMAIN teamsByLeague
    /\ NameKey(linkLabel) \in DOMAIN teamsByLeague[linkLeagueId]
    /\ Unmapped
    /\ LinkId = <<"o","k","l","a","h","o","m","a","-","c","i","t","y","-","t","h","u","n","d","e","r">>

----------------------------------------------------------------------------
(* Claims about the player stat projector (SpecStats).                     *)

StatsComputed == pc = "stats"

\* the union of the stat keys of the displayed players
DiscoveredKeys == UNION { Range(StatKeys(displayPlayers[i])) : i \in DOMAIN displayPlayers }

\* the position of a key in the preference list
PreferenceIndex(key) == CHOOSE i \in DOMAIN preferredOrder : preferredOrder[i] = key

\* C21: playerStats holds every discovered key once and no other key: first
\* the keys of the preference list in that list's order, then the remaining
\* keys in ascending order; an empty collection gives the empty sequence.
C21_UnionPreferredThenSorted ==
    StatsComputed =>
        /\ Range(playerStats) = DiscoveredKeys
        /\ Len(playerStats) = Cardinality(DiscoveredKeys)
        /\ \A i, j \in DOMAIN playerStats :
              i < j =>
                  LET a == playerStats[i]
                      b == playerStats[j]
                  IN  IF a \in Range(preferredOrder)
                      THEN b \in Range(preferredOrder)
                               => PreferenceIndex(a) < PreferenceIndex(b)
                      ELSE b \notin Range(preferredOrder) /\ StringLess(a, b)
        /\ displayPlayers = <<>> => playerStats = <<>>

\* two players share a key, hold two preferred keys out of list order and
\* two other keys out of alphabetical order
C21_Witness ==
    /\ StatsComputed
    /\ Len(displayPlayers) = 2
    /\ StatKeys(displayPlayers[1]) = <<<<"s","t","e","a","l","s">>, <<"a","s","s","i","s","t","s">>>>
    /\ StatKeys(displayPlayers[2]) = <<<<"b","l","o","c","k","s">>, <<"s","t","e","a","l","s">>>>
    /\ playerStats = <<<<"a","s","s","i","s","t","s">>, <<"b","l","o","c","k","s">>, <<"s","t","e","a","l","s">>>>

\* the displayed players' stat maps hold exactly assists, goals and steals
HasAssistsGoalsSteals ==
    DiscoveredKeys = {<<"a","s","s","i","s","t","s">>, <<"g","o","a","l","s">>, <<"s","t","e","a","l","s">>}

\* C22 as stated: the keys assists, goals and steals are displayed as
\* goals, assists, steals.
C22_GoalsAssistsSteals ==
    (StatsComputed /\ HasAssistsGoalsSteals) =>
        playerStats = <<<<"g","o","a","l","s">>, <<"a","s","s","i","s","t","s">>, <<"s","t","e","a","l","s">>>>

\* C22: the keys assists, goals and steals are displayed as assists, goals,
\* steals: assists precedes goals in the preference list, steals is not in
\* it.
C22_AssistsGoalsSteals ==
    (StatsComputed /\ HasAssistsGoalsSteals) =>
        playerStats = <<<<"a","s","s","i","s","t","s">>, <<"g","o","a","l","s">>, <<"s","t","e","a","l","s">>>>

\* the three keys discovered in the order steals, goals, assists
C22_Witness ==
    /\ StatsComputed
    /\ Len(displayPlayers) = 2
    /\ StatKeys(displayPlayers[1]) = <<<<"s","t","e","a","l","s">>, <<"g","o","a","l","s">>>>
    /\ StatKeys(displayPlayers[2]) = <<<<"a","s","s","i","s","t","s">>>>
    /\ playerStats = <<<<"a","s","s","i","s","t","s">>, <<"g","o","a","l","s">>, <<"s","t","e","a","l","s">>>>

\* a sequence holding the elements of a set, in an order fixed by the set
RECURSIVE SeqOfSet(_)
SeqOfSet(S) ==
    IF S = {} THEN <<>>
    ELSE LET x == CHOOSE x \in S : TRUE
         IN  <<x>> \o SeqOfSet(S \ {x})

\* one player collection for each set of keys: a single player whose stat
\* map holds the keys of the set
CollectionOfKeys(S) == <<Player(Stats(SeqOfSet(S)))>>

\* C23: the key order depends only on the set of discovered keys: the
\* displayed order is the one computed for the collection that stands for
\* that set, so two collections with the same union of keys, whatever the
\* order of their players and of the keys in each stat map, display the
\* same sequence.
C23_OrderDependsOnKeySetOnly ==
    StatsComputed =>
        playerStats = playerStatsOf(CollectionOfKeys(DiscoveredKeys))

\* two keys outside the preference list discovered in descending order, and
\* the collection with the same keys discovered in ascending order exists
C23_Witness ==
    /\ StatsComputed
    /\ Len(displayPlayers) = 2
    /\ StatKeys(displayPlayers[1]) = <<<<"s","t","e","a","l","s">>, <<"g","o","a","l","s">>>>
    /\ StatKeys(displayPlayers[2]) = <<<<"b","l","o","c","k","s">>, <<"a","s","s","i","s","t","s">>>>
    /\ playerStats = <<<<"a","s","s","i","s","t","s">>, <<"g","o","a","l","s">>, <<"b","l","o","c","k","s">>, <<"s","t","e","a","l","s">>>>
    /\ playerStats = playerStatsOf(<<Player(Stats(<<<<"b","l","o","c","k","s">>, <<"s","t","e","a","l","s">>>>)),
                                     Player(Stats(<<<<"a","s","s","i","s","t","s">>, <<"g","o","a","l","s">>>>))>>)

----------------------------------------------------------------------------
(* Claims about the inputs of the derivations (SpecFrame).                 *)

\* the i-th annotated game is its input game with recordAfter added
AnnotatesInput(i) ==
    /\ DOMAIN playedGamesWithRecord[i] = DOMAIN playedGames[i] \cup {"recordAfter"}
    /\ \A f \in DOMAIN playedGames[i] :
          playedGamesWithRecord[i][f] = playedGames[i][f]

----------------------------------------------------------------------------
(* Claims about the league menu (SpecMenuFair).                            *)

\* the template's condition for rendering a league's team menu
MenuShown(league) == openLeague = league.id /\ league.available

MenuPending(leagueId) ==
    \E request \in menuRequests : request.league = leagueId

\* C30: in the league menu the roster of an available league is requested at
\* most once, whatever the hover, focus and leave events are: not while a
\* request is in flight, and not after a result is stored, even the empty
\* list of a failed request; a league that is not available never shows a
\* menu and never starts a request; and the loading flag of a league is up
\* exactly while its request is pending, and every started request resets
\* it to false in the end, whether it succeeds or fails.
C30_RosterFetchedAtMostOnce ==
    /\ [](\A league \in MenuLeagues :
            /\ league.available => menuFetches[league.id] <= 1
            /\ ~league.available =>
                  /\ ~MenuShown(league)
                  /\ menuFetches[league.id] = 0
                  /\ ~loadingTeamsByLeague[league.id]
            /\ loadingTeamsByLeague[league.id] <=> MenuPending(league.id))
    /\ \A leagueId \in MenuLeagueIds :
            loadingTeamsByLeague[leagueId] ~> ~loadingTeamsByLeague[leagueId]

\* a failed request left the empty list, and the menu of that league is open
\* again or still: one request was made
C30_Witness ==
    /\ pc = "menu"
    /\ openLeague = <<"n","b","a">>
    /\ menuTeamsByLeague[<<"n","b","a">>] = MenuTeams(<<>>)
    /\ ~loadingTeamsByLeague[<<"n","b","a">>]
    /\ menuFetches[<<"n","b","a">>] = 1
    /\ loadingTeamsByLeague[<<"n","h","l">>]
    /\ menuTeamsByLeague[<<"m","l","b">>].stored
    /\ menuTeamsByLeague[<<"m","l","b">>].teams # <<>>

----------------------------------------------------------------------------
(* Claims about the loads and the polling of the Home view (SpecHome).     *)

\* the non-silent call of loadTodayGames has been made and has ended
NonSilentLoadEnded ==
    /\ homeLifecycle # "setup"
    /\ \A request \in scheduleRequests : request.silent

HomeLinkRendered == linkRoute # NoValue

\* the roster request of a league has been answered with a failure
RosterFailed(leagueId) ==
    /\ leagueId \in DOMAIN teamsResponses
    /\ ~teamsResponses[leagueId].ok

\* C25: a failed schedule request is absorbed: when the request that ended
\* last has failed, the payload is the empty object, the today and the
\* yesterday bucket are empty and the "no games today" notice is off; once
\* the non-silent load has ended, failed or not, the loading flag is false;
\* and a league whose roster request failed has an empty lookup after
\* loadLeagueTeams, so that every link of that league gets the fallback
\* identifier.
C25_FetchFailuresAbsorbed ==
    /\ lastScheduleResult = "failed" =>
          /\ todayGamesPayload = EmptyPayload
          /\ todayLeagues = <<>>
          /\ yesterdayLeagues = <<>>
          /\ sortedTodayLeagues = <<>>
          /\ sortedYesterdayLeagues = <<>>
          /\ ~todayEmptyNotice
    /\ NonSilentLoadEnded => ~loadingTodayGames
    /\ rosterLoad = "done" =>
          \A leagueId \in Range(Leagues) :
              RosterFailed(leagueId) =>
                  /\ teamsByLeague[leagueId] = EmptyLookup
                  /\ (HomeLinkRendered /\ linkLeagueId = leagueId) =>
                        linkRoute = RoutePath(leagueId, slugify(linkTeamName))

\* the initial schedule request and nba's roster request failed; the hook
\* went on to start the polling, and a Thunder link of nba is rendered
C25_Witness ==
    /\ pc = "home"
    /\ lastScheduleResult = "failed"
    /\ scheduleFetches = 1
    /\ scheduleRequests = {}
    /\ ~loadingTodayGames
    /\ mountedHook = "done"
    /\ rosterLoad = "done"
    /\ RosterFailed(<<"n","b","a">>)
    /\ teamsResponses[<<"n","h","l">>].ok
    /\ linkLeagueId = <<"n","b","a">>
    /\ linkRoute = RoutePath(<<"n","b","a">>,
          <<"o","k","l","a","h","o","m","a","-","c","i","t","y","-","t","h","u","n","d","e","r">>)

\* C27: whenever the schedule request that ended last has succeeded, the
\* error message is empty and the board is shown, not the error notice: a
\* failed silent poll leaves no error notice behind once a later poll has
\* succeeded.
C27_ErrorClearedBySuccess ==
    lastScheduleResult = "ok" => (todayGamesError = "" /\ HomeShows = "board")

\* C28: once the view is unmounted, no interval of the view is set and no
\* schedule request is started any more, also when the view is unmounted
\* before the initial loads have ended.
C28_NoPollingAfterUnmount ==
    /\ [](homeLifecycle = "unmounted" => windowIntervals = {})
    /\ [][homeLifecycle = "unmounted" => scheduleFetches' = scheduleFetches]_vars

----------------------------------------------------------------------------
(* Claims about the loads of the Team view (SpecView).                     *)

\* a call of loadGamePlayerStats ends in this step without per-game rows
StatsEndUnavailable ==
    /\ statsSettled' # statsSettled
    /\ lastStatsOutcome' \in {"no id", "no players", "failed"}

\* C24: when a call of loadGamePlayerStats ends without per-game rows (the
\* selected game has no id, the box score holds no players, or the request
\* fails), the displayed players are the season rows of the team, a
\* non-empty notice is set, the error of the view is left as it was and a
\* loaded team stays loaded (a call that loadTeam did not make leaves the
\* team untouched); per-game rows are displayed only after a call that
\* received at least one player.
C24_FallbackToSeasonRows ==
    /\ [][StatsEndUnavailable =>
            /\ gameStatsPlayers' = <<>>
            /\ displayPlayers' = SeasonRows(team')
            /\ gameStatsMessage' # ""
            /\ error' = error
            /\ team.loaded => team'.loaded
            /\ teamRequests' = teamRequests => team' = team
          ]_vars
    /\ [](displayPlayers # SeasonRows(team) =>
            /\ lastStatsOutcome = "players"
            /\ displayPlayers = gameStatsPlayers
            /\ Len(gameStatsPlayers) > 0)

\* the box score request of okc's game g1 failed: the season rows of okc are
\* displayed under the notice, the team is loaded and there is no error
C24_Witness ==
    /\ pc = "view"
    /\ lastStatsOutcome = "failed"
    /\ team = TeamOfRoute("okc")
    /\ selectedGameId = Str(<<"g","1">>)
    /\ displayPlayers = <<PlayerRow("okc season", <<"p","o","i","n","t","s">>)>>
    /\ playerStats = << <<"p","o","i","n","t","s">> >>
    /\ gameStatsMessage = StatsFailedNotice
    /\ error = ""
    /\ ~loading /\ ~gameStatsLoading

\* no request of the view is pending
ViewSettled == teamRequests = {} /\ statsRequests = {}

\* the latest call of loadTeam, the one for the current route, has not ended
LatestLoadPending ==
    \/ \E request \in teamRequests : request.number = latestLoad
    \/ \E request \in statsRequests :
           request.number = latestLoad /\ request.fromLoadTeam

\* C29: once all requests of the Team view have ended, the team, the
\* selected game and the per-game rows are those of the latest route
\* parameters: a late response for an earlier route or an earlier selection
\* does not replace newer state; and the loading flag is false only when
\* no load for the current route is pending.
C29_LatestRouteWins ==
    /\ ViewSettled =>
          /\ team.loaded => team.id = routeParams
          /\ (team.loaded /\ playedGames # <<>>) =>
                \E k \in DOMAIN playedGames :
                    IdOrEmpty(playedGames[k].id) = IdOrEmpty(selectedGameId)
          /\ gameStatsPlayers # <<>> =>
                /\ ~NoGameId(selectedGameId)
                /\ gameStatsPlayers = PerGameRows(routeParams, selectedGameId.chars)
    /\ (pc = "view" /\ ~loading) => ~LatestLoadPending

====
